---- MODULE Spec2Model ----
(***************************************************************************)
(* Seismic Event Characterization Engine: the magnitude estimators of      *)
(* src/core/magnitude.py, the phase-onset detector of src/core/picking.py  *)
(* and the grid-search locator of src/core/location/one_d_location.py.     *)
(*                                                                         *)
(* Every engine operation is a stateless function.  A call is one action:  *)
(* it draws the arguments, runs the whole function and records arguments   *)
(* and outcome; Return models the caller dropping the outcome again.       *)
(*                                                                         *)
(* Number representation (exact integer arithmetic, no float rounding):    *)
(*   pick times, delta_ps        ticks of 0.1 s                            *)
(*   sampling rate               Hz                                        *)
(*   distance_km                 units of 0.01 km                          *)
(*   amplitude_mm                units of 0.001 mm                         *)
(*   ml, log10 values            units of 1e-6                             *)
(* Warning and note texts are the code's texts in plain ASCII.             *)
(***************************************************************************)
EXTENDS Integers, Sequences, FiniteSets, TLC

VARIABLES pc, call, result, again, written, session, agents, searcher, before, widgets

vars == <<pc, call, result, again, written, session, agents, searcher, before, widgets>>

(* The state outside the engine: the page session, the agent cache of   *)
(* seismic_interpreter.py, the catalogue searcher, the snapshot a       *)
(* running call started from, and the viewer's st.session_state keys    *)
appVars == <<session, agents, searcher, before, widgets>>

-----------------------------------------------------------------------------
(* Bounds of the model *)

MaxPicks == 2
MaxTraceLen == 12

-----------------------------------------------------------------------------
(* Generic helpers *)

None == <<>>
Some(v) == <<v>>
Min(a, b) == IF a <= b THEN a ELSE b
Max(a, b) == IF a >= b THEN a ELSE b
Abs(a) == IF a < 0 THEN 0 - a ELSE a

(* Python int(num/den) for den > 0: truncation towards zero *)
PyInt(num, den) == IF num >= 0 THEN num \div den ELSE 0 - ((0 - num) \div den)

(* Python/numpy slice s[a:b] of a 0-indexed array, negative indices wrap *)
PySliceIndex(i, n) == IF i < 0 THEN Max(i + n, 0) ELSE Min(i, n)
PySlice(s, a, b) == SubSeq(s, PySliceIndex(a, Len(s)) + 1, PySliceIndex(b, Len(s)))

RECURSIVE MaxAbs(_)
MaxAbs(s) == IF s = <<>> THEN 0 ELSE Max(Abs(Head(s)), MaxAbs(Tail(s)))

Zeros(n) == [i \in 1..n |-> 0]
Pulse(n, k, a) == [i \in 1..n |-> IF i = k THEN a ELSE 0]

(* Sequences over S of length 0..n *)
SeqsUpTo(S, n) == UNION {[1..k -> S] : k \in 0..n}

(* log10(x) in units of 1e-6, x given in thousandths, at the arguments the *)
(* model feeds it (math.log10 rounded to six decimals)                     *)
Log10Table ==
    (1 :> -3000000) @@ (10 :> -2000000) @@ (100 :> -1000000) @@ (1000 :> 0)
    @@ (2000 :> 301030) @@ (10000 :> 1000000)
    @@ (8400 :> 924279) @@ (16800 :> 1225309) @@ (25200 :> 1401401)
    @@ (67200 :> 1827369) @@ (75600 :> 1878522) @@ (92400 :> 1965672)
Log10(x) == Log10Table[x]

-----------------------------------------------------------------------------
(* magnitude.py: constants *)

PS_FACTOR == 84               \* 8.4 km/s: 0.01 km per tick of 0.1 s
HB_BREAK == 6000              \* 60.0 km
HB_NEAR_SLOPE == 180          \* 0.018 per km
HB_NEAR_OFFSET == 2170000     \* 2.17
HB_FAR_SLOPE == 38            \* 0.0038 per km
HB_FAR_OFFSET == 3020000      \* 3.02
MIN_SAMPLES == 10             \* data.size < 10
MAX_WINDOW == 150             \* 15.0 s
PLACEHOLDER_WINDOW == 30      \* 3.0 s
DEFAULT_BAND_FMAX == 20       \* DEFAULT_BAND[1], Hz

(* A warning is a text plus the value an f-string embeds in it *)
W(text) == [text |-> text, arg |-> ""]
WArg(text, arg) == [text |-> text, arg |-> arg]

MagnitudeResult(ml, amplitude_mm, delta_ps, distance_km, notes, method, warnings, removed, sensor_type, units_assumed) ==
    [ml |-> ml, amplitude_mm |-> amplitude_mm, delta_ps |-> delta_ps,
     distance_km |-> distance_km, notes |-> notes, method |-> method,
     warnings |-> warnings, instrument_response_removed |-> removed,
     sensor_type |-> sensor_type, units_assumed |-> units_assumed]

Returned(v) == [kind |-> "return", value |-> v]
Raised(exc) == [kind |-> "raise", exc |-> exc]

EstimateDistanceFromPsFactor8(delta_ps) == delta_ps * 80
EstimateDistanceFromPs(delta_ps) == delta_ps * PS_FACTOR

Log10A0SingleBranch(distance_km) == HB_NEAR_SLOPE * distance_km + HB_NEAR_OFFSET
Log10A0HuttonBoore(distance_km) ==
    IF distance_km <= HB_BREAK
    THEN HB_NEAR_SLOPE * distance_km + HB_NEAR_OFFSET
    ELSE HB_FAR_SLOPE * distance_km + HB_FAR_OFFSET

(* the magnitude as a slip would compute it: the correction added *)
ComputeMlAddingA0(amplitude_mm, distance_km) ==
    IF amplitude_mm <= 0 \/ distance_km <= 0
    THEN Raised("ValueError: Amplitud o distancia invalida para ML")
    ELSE Returned(Log10(amplitude_mm) + Log10A0HuttonBoore(distance_km))
ComputeMlHuttonBoore(amplitude_mm, distance_km) ==
    IF amplitude_mm <= 0 \/ distance_km <= 0
    THEN Raised("ValueError: Amplitud o distancia invalida para ML")
    ELSE Returned(Log10(amplitude_mm) - Log10A0HuttonBoore(distance_km))

(* _integrate: empty stays empty, otherwise one sample shorter *)
IntegrateLen(n) == IF n = 0 THEN 0 ELSE n - 1

(* next(p for p in station_picks if p.get("phase") == phase), else None *)
RECURSIVE FirstPick(_, _, _)
FirstPick(picks, station, phase) ==
    IF picks = <<>> THEN None
    ELSE IF Head(picks).station = station /\ Head(picks).phase = phase
         THEN Some(Head(picks))
         ELSE FirstPick(Tail(picks), station, phase)

RECURSIVE LastPick(_, _, _)
LastPick(picks, station, phase) ==
    IF picks = <<>> THEN None
    ELSE IF picks[Len(picks)].station = station /\ picks[Len(picks)].phase = phase
         THEN Some(picks[Len(picks)])
         ELSE LastPick(SubSeq(picks, 1, Len(picks) - 1), station, phase)

-----------------------------------------------------------------------------
(* magnitude.py: unit detection and instrument response *)

NoStats == None
Channels == {"HNZ", "bhz", "HLZ", "EHZ"}

(* channel.upper()[:2] for the channel codes of the model *)
ChannelPrefix == ("HNZ" :> "HN") @@ ("bhz" :> "BH") @@ ("HLZ" :> "HL") @@ ("EHZ" :> "EH")

(* _detect_units_from_trace_stats: (units, warnings) *)
DetectUnitsFromTraceStats(trace_stats) ==
    IF trace_stats = None
    THEN [units |-> "cm/s2", warnings |-> <<W("Sin metadatos de traza - asumiendo cm/s2")>>]
    ELSE LET prefix == ChannelPrefix[trace_stats[1].channel] IN
         IF prefix \in {"HN", "BN"}
         THEN [units |-> "m/s2",
               warnings |-> <<W("Canal acelerometro detectado - asumiendo m/s2")>>]
         ELSE IF prefix \in {"HH", "BH"}
         THEN [units |-> "m/s",
               warnings |-> <<W("Canal velocimetro detectado - asumiendo m/s")>>]
         ELSE IF prefix \in {"HL", "BL"}
         THEN [units |-> "m",
               warnings |-> <<W("Canal desplazamiento detectado - asumiendo m")>>]
         ELSE [units |-> "cm/s2",
               warnings |-> <<WArg("Canal desconocido - asumiendo cm/s2", trace_stats[1].channel)>>]

(* inventory_path arguments: none, a plain path, a path whose file name    *)
(* happens to contain the word the caller searches the warnings for        *)
NoInventory == None
PlainPath == "inventario/estacion.xml"
KeywordPath == "inventario/exitosamente.xml"
InventoryPaths == {NoInventory, Some(PlainPath), Some(KeywordPath)}

SUCCESS_TEXT == "Respuesta instrumental removida exitosamente"

(* "exitosamente" in s, for the texts the model builds *)
ContainsExitosamente(s) == s \in {SUCCESS_TEXT, KeywordPath}

(* What the environment does to an inventory lookup: obspy missing, file   *)
(* missing, response removed, or any exception inside the try block        *)
InventoryOutcomes == {"no_obspy", "not_found", "removed", "exception"}

(* _remove_instrument_response: the warnings it returns (the data it       *)
(* returns is part of the filter chain, see FilteredSignals)               *)
RemoveInstrumentResponse(inventory_path, outcome) ==
    IF inventory_path = None \/ outcome = "no_obspy"
    THEN <<W("Sin inventario instrumental - usando datos sin corregir")>>
    ELSE IF outcome = "not_found"
    THEN <<WArg("Archivo inventario no encontrado: ", inventory_path[1])>>
    ELSE IF outcome = "removed"
    THEN <<W(SUCCESS_TEXT)>>
    ELSE <<WArg("Error al remover respuesta instrumental: ", "could not parse")>>

(* "exitosamente" in " ".join(response_warnings) *)
JoinedContainsExitosamente(ws) ==
    \E i \in 1..Len(ws) : ContainsExitosamente(ws[i].text) \/ ContainsExitosamente(ws[i].arg)

(* Number of _integrate passes for the detected unit *)
IntegrationPasses(units) ==
    IF units \in {"m/s2", "cm/s2"} THEN 2 ELSE IF units = "m/s" THEN 1 ELSE 0

RECURSIVE IntegrateTimes(_, _)
IntegrateTimes(n, k) == IF k = 0 THEN n ELSE IntegrateTimes(IntegrateLen(n), k - 1)

(* wa_mm.size: _preprocess_array and _bandpass keep the length *)
WaLen(n, units) == IntegrateTimes(n, IntegrationPasses(units))

-----------------------------------------------------------------------------
(* magnitude.py: estimate_local_magnitude_wa_with_response *)

(* fmax handed to the first _bandpass, in units of 0.01 Hz, and whether    *)
(* the clipping warning is issued                                          *)
BandFmax(sr) ==
    IF sr * 50 < DEFAULT_BAND_FMAX * 100
    THEN [fmax |-> sr * 45, clipped |-> TRUE]
    ELSE [fmax |-> DEFAULT_BAND_FMAX * 100, clipped |-> FALSE]

WA_DISTANCE_WARNING == W("Distancia estimada de P-S (una estacion)")
WA_PRELIMINARY_WARNING == W("Magnitud preliminar - requiere calibracion regional")
WA_NOT_REMOVED_WARNING == W("IMPORTANTE: Respuesta instrumental no removida")

MethodologyWarningsNoStatus(response_removed) ==
    <<WA_DISTANCE_WARNING, WA_PRELIMINARY_WARNING>>
MethodologyWarnings(response_removed) ==
    (IF ~response_removed THEN <<WA_NOT_REMOVED_WARNING>> ELSE <<>>)
    \o <<WA_DISTANCE_WARNING, WA_PRELIMINARY_WARNING>>

(* Lines 235-334: the part of the estimator behind the input checks.       *)
(* env.inv is what the inventory lookup does, env.wa is wa_mm, the output  *)
(* of the floating-point filter chain (preprocess, bandpass, integrate,    *)
(* Wood-Anderson band), of the length the code gives it.                   *)
WaPipeline(p_pick, delta_ps, distance_km, n, sr, station, inventory_path, trace_stats, env) ==
    LET det == DetectUnitsFromTraceStats(trace_stats)
        units_detected == det.units
        response_warnings ==
            IF inventory_path # None
            THEN RemoveInstrumentResponse(inventory_path, env.inv)
            ELSE <<W("Sin inventario - procesamientos heuristicos")>>
        response_removed ==
            inventory_path # None /\ JoinedContainsExitosamente(response_warnings)
        sensor_type == IF response_removed THEN "Con inventario" ELSE "Desconocido"
        warnings ==
            det.warnings \o response_warnings
            \o (IF BandFmax(sr).clipped THEN <<W("fmax recortado a Nyquist*0.45")>> ELSE <<>>)
        wa_mm == env.wa
        p_time == p_pick.time_rel
        win_len == Min(delta_ps * 2, MAX_WINDOW)
        start_idx == PyInt(p_time * sr, 10)
        end_idx == Min(PyInt((p_time + win_len) * sr, 10), Len(wa_mm))
        window == PySlice(wa_mm, start_idx, end_idx)
        peak_mm == IF Len(window) > 0 THEN MaxAbs(window) ELSE 0
        Fail(amplitude, notes, last_warning) ==
            MagnitudeResult(None, amplitude, Some(delta_ps), Some(distance_km), notes,
                            "wood_anderson_inst", warnings \o <<W(last_warning)>>,
                            response_removed, Some(sensor_type), Some(units_detected))
    IN  IF Len(wa_mm) = 0 THEN Fail(None, "Sin datos WA", "Vector vacio")
        ELSE IF end_idx <= start_idx THEN Fail(None, "Ventana vacia", "Ventana vacia")
        ELSE IF peak_mm <= 0 THEN Fail(Some(peak_mm), "Amplitud nula", "Pico=0")
        ELSE LET ml == ComputeMlHuttonBoore(peak_mm, distance_km) IN
             IF ml.kind = "raise"
             THEN Fail(Some(peak_mm), "Error ML: Amplitud o distancia invalida para ML",
                       "Error computo ML")
             ELSE MagnitudeResult(Some(ml.value), Some(peak_mm), Some(delta_ps),
                                  Some(distance_km),
                                  IF response_removed
                                  THEN "ML Wood-Anderson (respuesta si)"
                                  ELSE "ML Wood-Anderson (respuesta no)",
                                  "wood_anderson_inst",
                                  warnings \o MethodologyWarnings(response_removed),
                                  response_removed, Some(sensor_type), Some(units_detected))

(* delta_ps as a slip would compute it: the size of the interval only *)
DeltaPsAbs(s_pick, p_pick) == Abs(s_pick.time_rel - p_pick.time_rel)
(* delta_ps = float(s_pick["time_rel"]) - float(p_pick["time_rel"]) *)
DeltaPs(s_pick, p_pick) == s_pick.time_rel - p_pick.time_rel

(* if delta_ps <= 0 *)
InvalidDeltaPs(delta_ps) == delta_ps <= 0

(* Whether the call gets past the input checks of lines 213-233 *)
WaReachesPipeline(picks, n, sr, station) ==
    LET p_pick == FirstPick(picks, station, "P")
        s_pick == FirstPick(picks, station, "S")
    IN  /\ p_pick # None /\ s_pick # None
        /\ ~InvalidDeltaPs(DeltaPs(s_pick[1], p_pick[1]))
        /\ ~(sr <= 0 \/ n < MIN_SAMPLES)

WaMissingPicksSilent(method) ==
    MagnitudeResult(None, None, None, None, "", method, <<>>, FALSE, None, None)
WaMissingPicks(method) ==
    MagnitudeResult(None, None, None, None, "Faltan picks P/S", method,
                    <<W("Se requieren picks P y S")>>, FALSE, None, None)

EstimateLocalMagnitudeWaWithResponse(picks, n, sr, station, inventory_path, trace_stats, env) ==
    LET p_pick == FirstPick(picks, station, "P")
        s_pick == FirstPick(picks, station, "S")
    IN  IF p_pick = None \/ s_pick = None
        THEN WaMissingPicks("wood_anderson_inst")
        ELSE LET delta_ps == DeltaPs(s_pick[1], p_pick[1]) IN
             IF InvalidDeltaPs(delta_ps)
             THEN MagnitudeResult(None, None, None, None, "DeltaP-S invalida",
                                  "wood_anderson_inst", <<W("DeltaP-S <= 0")>>,
                                  FALSE, None, None)
             ELSE LET distance_km == EstimateDistanceFromPs(delta_ps) IN
                  IF sr <= 0 \/ n < MIN_SAMPLES
                  THEN MagnitudeResult(None, None, Some(delta_ps), Some(distance_km),
                                       "Datos insuficientes", "wood_anderson_inst",
                                       <<W("Datos insuficientes")>>, FALSE, None, None)
                  ELSE WaPipeline(p_pick[1], delta_ps, distance_km, n, sr, station,
                                  inventory_path, trace_stats, env)

(* estimate_local_magnitude_wa: the same call without inventory and stats *)
EstimateLocalMagnitudeWa(picks, n, sr, station, env) ==
    EstimateLocalMagnitudeWaWithResponse(picks, n, sr, station, NoInventory, NoStats, env)

-----------------------------------------------------------------------------
(* magnitude.py: estimate_local_magnitude_placeholder *)

(* log10(amp) + 1.11*log10(R) + 0.00189*R - 2.09; math.log10 raises for a  *)
(* non-positive argument                                                   *)
PlaceholderMl(amplitude_mm, distance_km) ==
    IF amplitude_mm <= 0 \/ distance_km <= 0
    THEN Raised("ValueError: math domain error")
    ELSE Returned(Log10(amplitude_mm) + (111 * Log10(distance_km * 10)) \div 100
                  + (189 * distance_km) \div 10 - 2090000)

PlaceholderResult(ml, amplitude_mm, delta_ps, distance_km, notes, warnings) ==
    MagnitudeResult(ml, amplitude_mm, delta_ps, distance_km, notes, "placeholder",
                    warnings, FALSE, None, None)

EstimateLocalMagnitudePlaceholder(picks, trace_data, sr, station) ==
    LET p_pick == FirstPick(picks, station, "P")
        s_pick == FirstPick(picks, station, "S")
    IN  IF p_pick = None \/ s_pick = None
        THEN PlaceholderResult(None, None, None, None, "P y S no disponibles",
                               <<W("Faltan picks P/S")>>)
        ELSE LET delta_ps == DeltaPs(s_pick[1], p_pick[1]) IN
             IF InvalidDeltaPs(delta_ps)
             THEN PlaceholderResult(None, None, None, None, "Delta P-S invalida",
                                    <<W("DeltaP-S <= 0")>>)
             ELSE LET distance_km == EstimateDistanceFromPs(delta_ps)
                      p_time == p_pick[1].time_rel
                      start_idx == PyInt(p_time * sr, 10)
                      end_idx == Min(PyInt((p_time + PLACEHOLDER_WINDOW) * sr, 10),
                                     Len(trace_data))
                      window == PySlice(trace_data, start_idx, end_idx)
                      amplitude_mm == MaxAbs(window) * 10
                      ml == PlaceholderMl(amplitude_mm, distance_km)
                  IN  IF end_idx <= start_idx
                      THEN PlaceholderResult(None, None, Some(delta_ps), Some(distance_km),
                                             "Ventana invalida", <<W("Ventana vacia")>>)
                      ELSE IF Len(window) = 0
                      THEN PlaceholderResult(None, None, Some(delta_ps), Some(distance_km),
                                             "Sin datos", <<W("Sin muestras")>>)
                      ELSE IF ml.kind = "raise"
                      THEN PlaceholderResult(None, Some(amplitude_mm), Some(delta_ps),
                                             Some(distance_km), "Error ML: math domain error",
                                             <<W("Error computo")>>)
                      ELSE PlaceholderResult(Some(ml.value), Some(amplitude_mm),
                                             Some(delta_ps), Some(distance_km),
                                             "OK (no riguroso)",
                                             <<W("Factor escala ficticio"),
                                               W("No Wood-Anderson")>>)

-----------------------------------------------------------------------------
(* services/waveform_service.py *)

(* MagnitudeEstimate.from_core: the typed copy of the core result *)
FromCore(core_result) == core_result

(* WaveformAnalysisService.estimate_magnitude_wood_anderson; trace.stats   *)
(* carries the station and the sampling rate                               *)
ServiceEstimateMagnitudeWoodAnderson(picks, trace_data, sr, station, env) ==
    IF sr <= 0
    THEN Raised("ValueError: Trace sampling rate must be greater than zero")
    ELSE IF Len(trace_data) = 0
    THEN Raised("ValueError: Trace data is empty")
    ELSE Returned(FromCore(EstimateLocalMagnitudeWa(picks, Len(trace_data), sr, station, env)))

-----------------------------------------------------------------------------
(* location/one_d_location.py                                              *)
(* Coordinates and grid values are whole km, distances are metres, times   *)
(* are ticks of 0.5 ms with travel times rounded down to whole ms (so the  *)
(* mean of two candidate origin times is again a whole tick), velocities   *)
(* are units of 0.1 km/s.                                                  *)

RECURSIVE ISqrtBetween(_, _, _)
ISqrtBetween(n, lo, hi) ==
    IF lo >= hi THEN lo
    ELSE LET mid == (lo + hi + 1) \div 2 IN
         IF mid * mid <= n THEN ISqrtBetween(n, mid, hi) ELSE ISqrtBetween(n, lo, mid - 1)
(* floor of the square root *)
ISqrt(n) == ISqrtBetween(n, 0, 46340)

(* np.hypot(dx, dy), km in, metres out *)
Hypot(dx, dy) == ISqrt((dx * dx + dy * dy) * 1000000)

(* dist_km / v *)
TravelTime(dist, v) == 2 * ((dist * 10) \div v)

(* _estimate_t0: (t0_from_P, t0_from_S) *)
EstimateT0(dist, obs, model) ==
    <<obs.t_p - TravelTime(dist, model.vp), obs.t_s - TravelTime(dist, model.vs)>>

Range(f) == {f[i] : i \in DOMAIN f}

(* k-th smallest element of a non-empty sequence *)
OrderStat(c, k) ==
    CHOOSE v \in Range(c) :
        /\ Cardinality({i \in DOMAIN c : c[i] < v}) < k
        /\ k <= Cardinality({i \in DOMAIN c : c[i] <= v})

(* the lower of the two middle values, the slip a hand-written median makes *)
LowerMedian(c) == OrderStat(c, (Len(c) + 1) \div 2)
(* np.median: the middle value, or the mean of the two middle values *)
Median(c) ==
    IF Len(c) % 2 = 1
    THEN OrderStat(c, (Len(c) + 1) \div 2)
    ELSE (OrderStat(c, Len(c) \div 2) + OrderStat(c, (Len(c) \div 2) + 1)) \div 2

RECURSIVE SumSeq(_)
SumSeq(s) == IF s = <<>> THEN 0 ELSE Head(s) + SumSeq(Tail(s))

RECURSIVE FlattenPairs(_)
FlattenPairs(s) == IF s = <<>> THEN <<>> ELSE Head(s) \o FlattenPairs(Tail(s))

(* st_map = {s.code: s for s in stations}: the last station of a code wins *)
StationCodes(stations) == {stations[i].code : i \in DOMAIN stations}
StMap(stations) ==
    [c \in StationCodes(stations) |->
        stations[CHOOSE i \in DOMAIN stations :
                    /\ stations[i].code = c
                    /\ \A j \in DOMAIN stations : stations[j].code = c => j <= i]]

(* the filter as a slip would write it: equal P and S times pass *)
IsValidObsNonStrict(o, codes) == o.station \in codes /\ o.t_s >= o.t_p
(* o.station in st_map and o.t_s > o.t_p *)
IsValidObs(o, codes) == o.station \in codes /\ o.t_s > o.t_p

(* valid_obs = [o for o in obs_list if ...] *)
RECURSIVE ValidObs(_, _)
ValidObs(stations, obs_list) ==
    IF obs_list = <<>> THEN <<>>
    ELSE (IF IsValidObs(Head(obs_list), StationCodes(stations))
          THEN <<Head(obs_list)>> ELSE <<>>)
         \o ValidObs(stations, Tail(obs_list))

(* the range as a slip would write it: np.arange(lo, hi, step) *)
ArangeHalfOpen(lo, hi, step) ==
    IF step > 0
    THEN IF hi > lo THEN [k \in 1..(((hi - lo - 1) \div step) + 1) |-> lo + (k - 1) * step]
         ELSE <<>>
    ELSE IF step < 0
    THEN IF lo > hi THEN [k \in 1..(((lo - hi - 1) \div (0 - step)) + 1) |-> lo + (k - 1) * step]
         ELSE <<>>
    ELSE <<>>
(* np.arange(lo, hi + 1e-9, step) on whole numbers; a zero step raises *)
Arange(lo, hi, step) ==
    IF step > 0
    THEN IF hi >= lo THEN [k \in 1..(((hi - lo) \div step) + 1) |-> lo + (k - 1) * step]
         ELSE <<>>
    ELSE IF step < 0
    THEN IF lo > hi THEN [k \in 1..(((lo - hi - 1) \div (0 - step)) + 1) |-> lo + (k - 1) * step]
         ELSE <<>>
    ELSE <<>>

LocationResult(x, y, t0, sum_sq, residuals, used) ==
    [x |-> x, y |-> y, t0 |-> t0, rms |-> ISqrt(sum_sq \div used), sum_sq |-> sum_sq,
     residuals |-> residuals, used_stations |-> used, notes |-> "OK (superficial homogeneo)"]

(* the predicted arrival as a slip would write it: with the S velocity *)
PredictPWithVs(t0, dist, model) == t0 + TravelTime(dist, model.vs)
(* tP_pred = t0 + dist / model.vp *)
PredictP(t0, dist, model) == t0 + TravelTime(dist, model.vp)

(* Lines 95-121 for one grid point: None when the point is skipped; dist   *)
(* is the distance both loops compute for each observation                 *)
EvaluatePoint(x, y, valid_obs, st_map, model) ==
    LET dist ==
            <<>> \o [i \in DOMAIN valid_obs |->
                        Hypot(st_map[valid_obs[i].station].x - x,
                              st_map[valid_obs[i].station].y - y)]
        t0_candidates ==
            FlattenPairs([i \in DOMAIN valid_obs |->
                             EstimateT0(dist[i], valid_obs[i], model)])
        t0 == Median(t0_candidates)
        residuals ==
            <<>> \o [i \in DOMAIN valid_obs |->
                        <<valid_obs[i].station,
                          valid_obs[i].t_p - PredictP(t0, dist[i], model)>>]
        sum_sq == SumSeq([i \in DOMAIN residuals |-> residuals[i][2] * residuals[i][2]])
    IN  IF Len(t0_candidates) = 0 THEN None
        ELSE Some(LocationResult(x, y, t0, sum_sq, residuals, Len(valid_obs)))

(* a later point also replaces the best on a tie *)
BetterOrEqual(cand, best) == cand.sum_sq * best.used_stations <= best.sum_sq * cand.used_stations
(* rms < best.rms, compared on the mean squares the roots are taken of *)
Better(cand, best) == cand.sum_sq * best.used_stations < best.sum_sq * cand.used_stations

(* The two loops over gx and gy, point number i of Len(gx) * Len(gy) *)
RECURSIVE ScanGrid(_, _, _, _, _, _, _)
ScanGrid(i, best, gx, gy, valid_obs, st_map, model) ==
    IF i > Len(gx) * Len(gy) THEN best
    ELSE LET x == gx[((i - 1) \div Len(gy)) + 1]
             y == gy[((i - 1) % Len(gy)) + 1]
             cand == EvaluatePoint(x, y, valid_obs, st_map, model)
             next == IF cand = None THEN best
                     ELSE IF best = None THEN cand
                     ELSE IF Better(cand[1], best[1]) THEN cand ELSE best
         IN  ScanGrid(i + 1, next, gx, gy, valid_obs, st_map, model)

(* the validity check as a slip would place it: after the grid is built *)
LocateEvent1dGridFirst(stations, observations, model, grid_x, grid_y, min_stations) ==
    LET valid_obs == ValidObs(stations, observations)
        gx == Arange(grid_x[1], grid_x[2], grid_x[3])
        gy == Arange(grid_y[1], grid_y[2], grid_y[3])
    IN  IF grid_x[3] = 0 \/ grid_y[3] = 0 THEN Raised("ZeroDivisionError")
        ELSE IF Len(observations) < min_stations THEN Returned(None)
        ELSE IF Len(valid_obs) < min_stations THEN Returned(None)
        ELSE Returned(ScanGrid(1, None, gx, gy, valid_obs, StMap(stations), model))
LocateEvent1d(stations, observations, model, grid_x, grid_y, min_stations) ==
    LET valid_obs == ValidObs(stations, observations)
        gx == Arange(grid_x[1], grid_x[2], grid_x[3])
        gy == Arange(grid_y[1], grid_y[2], grid_y[3])
    IN  IF Len(observations) < min_stations THEN Returned(None)
        ELSE IF Len(valid_obs) < min_stations THEN Returned(None)
        ELSE IF grid_x[3] = 0 \/ grid_y[3] = 0 THEN Raised("ZeroDivisionError")
        ELSE Returned(ScanGrid(1, None, gx, gy, valid_obs, StMap(stations), model))

-----------------------------------------------------------------------------
(* picking.py: suggest_picks_sta_lta                                       *)
(* sta and lta are tenths of a second, on and off tenths, time_rel is ms,  *)
(* scores are thousandths.                                                 *)

(* s[:k] *)
TakeAll(s, k) == s
TakeFirst(s, k) ==
    IF k >= 0 THEN SubSeq(s, 1, Min(k, Len(s))) ELSE SubSeq(s, 1, Max(Len(s) + k, 0))

(* nsta = max(1, int(sta * sr)); nlta = max(nsta + 1, int(lta * sr)) *)
NSta(sta, sr) == Max(1, PyInt(sta * sr, 10))
NLta(sta, lta, sr) == Max(NSta(sta, sr) + 1, PyInt(lta * sr, 10))

(* sum of data[i]^2 over the w samples starting at 0-based index i *)
WindowEnergy(data, i, w) == SumSeq([k \in 1..w |-> data[i + k] * data[i + k]])

(* np.convolve(data**2, np.ones(w) / w, mode="valid"): the window sums     *)
(* (each divided by w where it is used), len(data) - w + 1 of them         *)
RollingEnergy(data, w) == [i \in 1..(Len(data) - w + 1) |-> WindowEnergy(data, i - 1, w)]

(* numpy broadcasting of two 1-d shapes *)
Broadcastable(n, m) == n = m \/ n = 1 \/ m = 1

(* the alignment the comment of the code intends: the last values of short *)
FallbackAlignedShort(short, long) == SubSeq(short, Len(short) - Len(long) + 1, Len(short))
(* long = long[-short.size:] : long is the shorter array and stays whole *)
FallbackAlignedLong(short, long) == PySlice(long, 0 - Len(short), Len(long))

(* sqrt(s/nsta) / (sqrt(l/nlta) + 1e-9) > on, on the squares; the 1e-9     *)
(* decides nothing on whole-number samples                                 *)
RmsRatioExceeds(s, nsta, l, nlta, on) == l > 0 /\ s * nlta * 100 > on * on * l * nsta
RmsRatio(s, nsta, l, nlta) == IF l = 0 THEN 0 ELSE ISqrt((s * nlta * 1000000) \div (l * nsta))

Suggestion(time_rel, score) == [time_rel |-> time_rel, phase |-> "P?", score |-> score]

(* Lines 79-90 *)
FallbackSuggestions(data, sr, nsta, nlta, on, max_suggestions) ==
    IF Len(data) < nlta THEN Returned(<<>>)
    ELSE LET short == RollingEnergy(data, nsta)
             long == FallbackAlignedLong(short, RollingEnergy(data, nlta))
         IN  IF ~Broadcastable(Len(short), Len(long))
             THEN Raised("ValueError: operands could not be broadcast together")
             ELSE LET LongAt(i) == IF Len(long) = 1 THEN long[1] ELSE long[i]
                      hits == {i \in 1..Len(short) :
                                  RmsRatioExceeds(short[i], nsta, LongAt(i), nlta, on)}
                      RECURSIVE Indices(_)
                      Indices(i) ==
                          IF i > Len(short) THEN <<>>
                          ELSE (IF i \in hits THEN <<i - 1>> ELSE <<>>) \o Indices(i + 1)
                      indices == TakeFirst(Indices(1), max_suggestions)
                  IN  Returned([k \in DOMAIN indices |->
                                   Suggestion((indices[k] * 1000) \div sr,
                                              RmsRatio(short[indices[k] + 1], nsta,
                                                       LongAt(indices[k] + 1), nlta))])

(* classic_sta_lta: cft[i] = STA(i)/LTA(i) of the squared samples ending   *)
(* at i, zero before the first full long window; kept as the pair of       *)
(* window sums                                                             *)
ClassicStaLta(data, nsta, nlta) ==
    [i \in 1..Len(data) |->
        IF i < nlta THEN [sta |-> 0, lta |-> 0]
        ELSE [sta |-> WindowEnergy(data, i - nsta, nsta),
              lta |-> WindowEnergy(data, i - nlta, nlta)]]

(* cft[i] > threshold *)
CftExceeds(c, nsta, nlta, threshold) == c.lta > 0 /\ c.sta * nlta * 10 > threshold * c.lta * nsta
CftValue(c, nsta, nlta) == IF c.lta = 0 THEN 0 ELSE (c.sta * nlta * 1000) \div (c.lta * nsta)

(* trigger_onset: a detection opens where cft rises above on and closes    *)
(* where it is no longer above off; the 0-based onset samples in order     *)
RECURSIVE TriggerOnset(_, _, _, _, _, _, _)
TriggerOnset(cft, i, active, nsta, nlta, on, off) ==
    IF i > Len(cft) THEN <<>>
    ELSE IF ~active /\ CftExceeds(cft[i], nsta, nlta, on)
    THEN <<i - 1>> \o TriggerOnset(cft, i + 1, TRUE, nsta, nlta, on, off)
    ELSE TriggerOnset(cft, i + 1, active /\ CftExceeds(cft[i], nsta, nlta, off),
                      nsta, nlta, on, off)

(* Lines 93-100; short_input is what classic_sta_lta does with fewer than  *)
(* nlta samples: it raises or it returns an all-zero function              *)
ObspySuggestions(data, sr, nsta, nlta, on, off, max_suggestions, short_input) ==
    IF Len(data) < nlta /\ short_input = "raise"
    THEN Raised("Exception: stalta: len(data) < nlta")
    ELSE LET cft == ClassicStaLta(data, nsta, nlta)
             onsets == TakeFirst(TriggerOnset(cft, 1, FALSE, nsta, nlta, on, off),
                                 max_suggestions)
         IN  Returned([k \in DOMAIN onsets |->
                          Suggestion((onsets[k] * 1000) \div sr,
                                     CftValue(cft[onsets[k] + 1], nsta, nlta))])

SuggestPicksStaLta(data, sr, sta, lta, on, off, max_suggestions, obspy, short_input) ==
    IF Len(data) = 0 THEN Returned(<<>>)
    ELSE IF ~obspy
    THEN FallbackSuggestions(data, sr, NSta(sta, sr), NLta(sta, lta, sr), on, max_suggestions)
    ELSE ObspySuggestions(data, sr, NSta(sta, sr), NLta(sta, lta, sr), on, off,
                          max_suggestions, short_input)

-----------------------------------------------------------------------------
(* Arguments the calls are made with *)

TargetStation == "AAA"
PickTimes == {-10, 10, 20, 100}
PickUniverse ==
    [station : {TargetStation}, phase : {"P", "S"}, time_rel : PickTimes]
    \cup {[station |-> "BBB", phase |-> "P", time_rel |-> 10],
          [station |-> "BBB", phase |-> "S", time_rel |-> 20]}
PickLists == SeqsUpTo(PickUniverse, MaxPicks)

SamplingRates == {0, 2, 50}
TraceLengths == {MIN_SAMPLES - 2, MaxTraceLen}
TraceStatsValues == {NoStats} \cup {Some([channel |-> c]) : c \in Channels}

(* Raw traces: silence, or one pulse of RawAmps at one of PulseAt *)
RawAmps == {100, -1}
FilteredAmps == {1000, -2000}
PulseAt(n) == {1, 3, 6, n} \cap (1..n)
RawTraces(n) == {Zeros(n)} \cup {Pulse(n, k, a) : k \in PulseAt(n), a \in RawAmps}

(* Every step of the filter chain is linear: silence stays silence; any    *)
(* other trace may come out as any signal of the right length              *)
FilteredSignals(trace_data, len) ==
    IF trace_data = Zeros(Len(trace_data))
    THEN {Zeros(len)}
    ELSE {Zeros(len)} \cup {Pulse(len, k, a) : k \in PulseAt(len), a \in FilteredAmps}

UnusedEnv == [inv |-> "unused", wa |-> <<>>]

(* What the environment contributes to one Wood-Anderson call *)
WaEnvs(picks, trace_data, sr, station, inventory_path, trace_stats) ==
    IF ~WaReachesPipeline(picks, Len(trace_data), sr, station)
    THEN {UnusedEnv}
    ELSE [inv : IF inventory_path = None THEN {"unused"} ELSE InventoryOutcomes,
          wa : FilteredSignals(trace_data,
                               WaLen(Len(trace_data),
                                     DetectUnitsFromTraceStats(trace_stats).units))]

(* Locator arguments *)
MaxObs == 3

Station(code, x, y) == [code |-> code, x |-> x, y |-> y]
PSObservation(station, t_p, t_s) == [station |-> station, t_p |-> t_p, t_s |-> t_s]
CrustModel == [vp |-> 60, vs |-> 35]

LocateStations == <<Station("AAA", 0, 0), Station("BBB", 4, 0), Station("CCC", 0, 4)>>
ObsUniverse ==
    {PSObservation(c, t[1], t[2]) :
        c \in {"AAA", "BBB", "ZZZ"}, t \in {<<2000, 4000>>, <<4000, 4000>>}}
    \cup {PSObservation("AAA", 4000, 2000), PSObservation("CCC", 1000, 3000)}
ObsLists == SeqsUpTo(ObsUniverse, MaxObs)
GridPairs ==
    {<<<<0, 4, 2>>, <<0, 4, 2>>>>, <<<<0, 4, 0>>, <<0, 4, 2>>>>, <<<<0, 4, 2>>, <<0, 4, 0>>>>,
     <<<<4, 0, -2>>, <<0, 4, 2>>>>, <<<<4, 0, 2>>, <<0, 4, 2>>>>,
     <<<<0, 5, 2>>, <<1, 4, 3>>>>}

(* Zero-noise scenarios: three stations, a true epicentre and origin time, *)
(* picks t0 + d/vp and t0 + d/vs                                           *)
StationLayouts ==
    {<<Station("AAA", 0, 0), Station("BBB", 8, 0), Station("CCC", 0, 8)>>,
     <<Station("AAA", 0, 0), Station("BBB", 4, 0), Station("CCC", 8, 0)>>,
     <<Station("AAA", 4, 4), Station("BBB", 2, 0), Station("CCC", 6, 0)>>}
ScenarioGridX == <<0, 8, 2>>
ScenarioGridY == <<-4, 8, 2>>
ScenarioModels == {CrustModel, [vp |-> 35, vs |-> 35]}
ScenarioEpicentres ==
    {<<x, y>> : x \in Range(Arange(0, 8, 2)), y \in Range(Arange(-4, 8, 2))}
    \cup {<<3, 3>>, <<5, 1>>}
ScenarioOriginTimes == {0, 2000}
SyntheticObs(stations, x, y, t0, model) ==
    [i \in DOMAIN stations |->
        PSObservation(stations[i].code,
                      t0 + TravelTime(Hypot(stations[i].x - x, stations[i].y - y), model.vp),
                      t0 + TravelTime(Hypot(stations[i].x - x, stations[i].y - y), model.vs))]

(* Detector arguments *)
MaxSamples == 5
MaxSuggestions == 2
SampleValues == {0, 1, 4}
DetectorTraces == SeqsUpTo(SampleValues, MaxSamples)
DetectorRates == {1, 2}
LtaWindows == {20, 40}
OnThresholds == {15, 25}

-----------------------------------------------------------------------------
(* session_state.py: the session shared by the pages *)

(* A Python dict as the sequence of its items in insertion order *)
DictHas(d, k) == \E i \in DOMAIN d : d[i].key = k
DictGet(d, k) ==
    IF DictHas(d, k) THEN Some(d[CHOOSE i \in DOMAIN d : d[i].key = k].value) ELSE None
DictSet(d, k, v) ==
    IF DictHas(d, k)
    THEN [i \in DOMAIN d |-> IF d[i].key = k THEN [key |-> k, value |-> v] ELSE d[i]]
    ELSE Append(d, [key |-> k, value |-> v])
DictKeys(d) == [i \in DOMAIN d |-> d[i].key]

(* SeismicSession() with the metadata keys the stream helpers use *)
SeismicSession ==
    [streams |-> <<>>, stream_summaries |-> <<>>,
     current_stream_name |-> None, current_stream |-> None,
     stream_summary |-> None, ai_results |-> {},
     selected_trace_label |-> None, selected_trace |-> None,
     picks |-> <<>>, trace_cache |-> {}]

(* A stream is the sequence of its traces; a trace is its id, "" when it  *)
(* has neither id nor stats.  _trace_label: the id, else "Trace <idx+1>"  *)
PositionLabels == <<"Trace 1", "Trace 2", "Trace 3", "Trace 4">>
TraceLabel(trace, idx) == IF trace # "" THEN trace ELSE PositionLabels[idx]

ListTraceLabels(stream) == [idx \in DOMAIN stream |-> TraceLabel(stream[idx], idx)]

(* mapping = {label: trace ...}[label]: a later trace replaces an earlier *)
(* one with the same label.  Traces are named by their position.          *)
MappingFirst(labels, label) == CHOOSE i \in DOMAIN labels :
    labels[i] = label /\ \A j \in DOMAIN labels : labels[j] = label => i <= j
Mapping(labels, label) == CHOOSE i \in DOMAIN labels :
    labels[i] = label /\ \A j \in DOMAIN labels : labels[j] = label => j <= i

ApplyCurrentStreamKeepResults(previous, name, ai_results) == ai_results
ApplyCurrentStreamResults(previous, name, ai_results) ==
    IF previous # Some(name) /\ ai_results # {} THEN {} ELSE ai_results

(* _apply_current_stream *)
ApplyCurrentStream(s, name, stream, summary) ==
    LET previous == s.current_stream_name
        summaries == IF summary # None
                     THEN DictSet(s.stream_summaries, name, summary[1])
                     ELSE s.stream_summaries
        shown == IF summary # None THEN summary ELSE DictGet(summaries, name)
        labels == ListTraceLabels(stream)
        selected_label == s.selected_trace_label
        keep == /\ selected_label # None
                /\ \E i \in DOMAIN labels : labels[i] = selected_label[1]
                /\ previous = Some(name)
        s1 == [s EXCEPT !.current_stream_name = Some(name),
                        !.current_stream = Some(stream),
                        !.stream_summaries = summaries,
                        !.stream_summary = IF shown # None THEN shown ELSE @,
                        !.ai_results = ApplyCurrentStreamResults(previous, name, @)]
    IN  IF labels = <<>>
        THEN [s1 EXCEPT !.selected_trace_label = None, !.selected_trace = None]
        ELSE IF keep
        THEN [s1 EXCEPT !.selected_trace = Some(Mapping(labels, selected_label[1]))]
        ELSE [s1 EXCEPT !.selected_trace_label = Some(labels[1]),
                        !.selected_trace = Some(Mapping(labels, labels[1]))]

(* register_stream *)
RegisterStream(s, stream, name, summary) ==
    LET s1 == [s EXCEPT !.streams = DictSet(@, name, stream),
                        !.stream_summaries =
                            IF summary # None THEN DictSet(@, name, summary[1]) ELSE @]
    IN  ApplyCurrentStream(s1, name, stream, summary)

(* list_dataset_names *)
ListDatasetNames(s) == DictKeys(s.streams)

(* get_stream_summary *)
GetStreamSummary(s, name) ==
    IF name = None THEN s.stream_summary ELSE DictGet(s.stream_summaries, name[1])

(* set_current_stream: the new session and the stream returned *)
SetCurrentStream(s, name) ==
    LET stream == DictGet(s.streams, name)
    IN  IF stream = None
        THEN [session |-> s, value |-> None]
        ELSE [session |-> ApplyCurrentStream(s, name, stream[1],
                                             DictGet(s.stream_summaries, name)),
              value |-> stream]

(* the selection as a slip would write it: the label stored unchecked *)
SetSelectedTraceUnchecked(s, label) ==
    IF s.current_stream = None
    THEN [session |-> s, value |-> None]
    ELSE [session |-> [s EXCEPT !.selected_trace_label = Some(label)], value |-> None]
(* set_selected_trace: the first trace whose label matches *)
SetSelectedTrace(s, label) ==
    IF s.current_stream = None
    THEN [session |-> s, value |-> None]
    ELSE LET labels == ListTraceLabels(s.current_stream[1])
         IN  IF \E i \in DOMAIN labels : labels[i] = label
             THEN LET i == MappingFirst(labels, label)
                  IN  [session |-> [s EXCEPT !.selected_trace_label = Some(label),
                                             !.selected_trace = Some(i)],
                       value |-> Some(i)]
             ELSE [session |-> s, value |-> None]

(* add_pick *)
ADD_PICK_DEFAULT_METHOD == "manual"
AddPick(s, phase, time_rel, station, channel, method) ==
    [s EXCEPT !.picks = Append(@, [phase |-> phase, time_rel |-> time_rel,
                                   station |-> station, channel |-> channel,
                                   method |-> method])]

(* clear_picks *)
ClearPicks(s) == [s EXCEPT !.picks = <<>>]

(* The component state a call started from; nothing while no call runs *)
NoBefore == [kind |-> "none"]

-----------------------------------------------------------------------------
(* pages/04 Location_1D.py: the observations built from the session picks *)

(* station_map.setdefault(st_code, {})[p.get("phase")] = p for every pick  *)
(* after the first n: a later pick of a station and phase replaces an      *)
(* earlier one; a pick without station goes under "UNK"                    *)
RECURSIVE StationMap(_, _, _)
StationMap(picks, n, station_map) ==
    IF n >= Len(picks) THEN station_map
    ELSE LET p == picks[n + 1]
             st_code == IF p.station = "" THEN "UNK" ELSE p.station
             phases == IF DictHas(station_map, st_code)
                       THEN DictGet(station_map, st_code)[1] ELSE <<>>
         IN  StationMap(picks, n + 1,
                        DictSet(station_map, st_code, DictSet(phases, p.phase, p)))

(* _collect_ps_observations: one observation for each station that has a  *)
(* P and an S pick with S after P, in the order the stations first appear  *)
RECURSIVE ObservationsOf(_, _)
ObservationsOf(station_map, n) ==
    IF n >= Len(station_map) THEN <<>>
    ELSE LET st_code == station_map[n + 1].key
             phases == station_map[n + 1].value
             p_pick == DictGet(phases, "P")
             s_pick == DictGet(phases, "S")
         IN  (IF /\ p_pick # None /\ s_pick # None
                 /\ s_pick[1].time_rel > p_pick[1].time_rel
              THEN <<PSObservation(st_code, p_pick[1].time_rel, s_pick[1].time_rel)>>
              ELSE <<>>)
             \o ObservationsOf(station_map, n + 1)
CollectPsObservations(picks) == ObservationsOf(StationMap(picks, 0, <<>>), 0)

-----------------------------------------------------------------------------
(* pages/01 Waveform_Viewer.py: one render of the page *)

(* st.session_state of the viewer before its first render *)
NoWidgets == [waveform_last_dataset |-> None]

(* A trace object: the trace at place idx of one stream *)
TraceOf(stream, idx) == [stream |-> stream, idx |-> idx]

(* _extract_traces: list(stream), nothing for None *)
ExtractTraces(stream_container) ==
    IF stream_container = None THEN <<>>
    ELSE [idx \in DOMAIN stream_container[1] |-> TraceOf(stream_container[1], idx)]

(* get_traces_by_labels: [mapping[label] for label in labels if label in   *)
(* mapping] on the current stream                                          *)
RECURSIVE TracesByLabels(_, _)
TracesByLabels(stream, labels) ==
    IF labels = <<>> THEN <<>>
    ELSE LET known == ListTraceLabels(stream)
         IN  (IF \E i \in DOMAIN known : known[i] = Head(labels)
              THEN <<TraceOf(stream, Mapping(known, Head(labels)))>>
              ELSE <<>>)
             \o TracesByLabels(stream, Tail(labels))
GetTracesByLabels(s, labels) ==
    IF s.current_stream = None THEN <<>> ELSE TracesByLabels(s.current_stream[1], labels)

(* The trace cache, a dict: the set of its items, one for each key *)
GetTraceCache(s, key) ==
    IF \E e \in s.trace_cache : e.key = key
    THEN Some((CHOOSE e \in s.trace_cache : e.key = key).value)
    ELSE None
SetTraceCache(s, key, value) ==
    [s EXCEPT !.trace_cache = {e \in @ : e.key # key} \cup {[key |-> key, value |-> value]}]
ClearTraceCache(s) == [s EXCEPT !.trace_cache = {}]

(* cache_key: the dataset name the render read first and the labels shown; *)
(* the window, unit and filter of the sidebar stay at their defaults       *)
CacheKey(current_dataset, selected_labels) ==
    [dataset |-> current_dataset, labels |-> selected_labels]

(* Lines 168-194 of main: the traces to plot, from the cache or from the   *)
(* current stream, and then the invalidation                               *)
RenderTraces(s, w, current_dataset, station_choice) ==
    LET traces == ExtractTraces(s.current_stream)
        labels == [i \in DOMAIN traces |-> TraceLabel(traces[i].stream[traces[i].idx], i)]
        selected_stations == IF station_choice \in DOMAIN labels
                             THEN <<labels[station_choice]>> ELSE <<>>
        selected_labels == IF selected_stations # <<>> THEN selected_stations ELSE labels
        s1 == SetSelectedTrace(s, selected_labels[1]).session
        cache_key == CacheKey(current_dataset, selected_labels)
        cached == GetTraceCache(s1, cache_key)
        by_labels == GetTracesByLabels(s1, selected_labels)
        fresh == IF by_labels # <<>> THEN by_labels ELSE traces
        s2 == IF cached = None THEN SetTraceCache(s1, cache_key, fresh) ELSE s1
        changed == w.waveform_last_dataset # current_dataset
    IN  IF traces = <<>>
        THEN [session |-> s, widgets |-> w, plotted |-> None, from_cache |-> FALSE]
        ELSE [session |-> IF changed THEN ClearTraceCache(s2) ELSE s2,
              widgets |-> IF changed THEN [w EXCEPT !.waveform_last_dataset = current_dataset]
                          ELSE w,
              plotted |-> IF cached = None THEN Some(fresh) ELSE cached,
              from_cache |-> cached # None]

(* main, lines 130-194: the dataset of the selectbox is made current, an   *)
(* uploaded file is registered, the traces are plotted                     *)
RenderViewer(s, w, dataset_choice, upload, station_choice) ==
    LET dataset_names == ListDatasetNames(s)
        read_dataset == s.current_stream_name
        selected_dataset == IF dataset_choice \in DOMAIN dataset_names
                            THEN dataset_names[dataset_choice] ELSE dataset_names[1]
        switch == dataset_names # <<>> /\ Some(selected_dataset) # read_dataset
        s1 == IF switch THEN SetCurrentStream(s, selected_dataset).session ELSE s
        current_dataset == IF switch THEN Some(selected_dataset) ELSE read_dataset
        s2 == IF upload # None
              THEN RegisterStream(s1, upload[1].stream, upload[1].name, upload[1].summary)
              ELSE s1
    IN  RenderTraces(s2, w, current_dataset, station_choice)

-----------------------------------------------------------------------------
(* seismic_interpreter.py: the agent cache *)

CACHE_MAX_ENTRIES == 12

(* _AGENT_CACHE (least recently used first), _CACHE_ENABLED,              *)
(* _CACHE_MAX_ENTRIES, and the number of agents built so far              *)
AgentModule ==
    [cache |-> <<>>, enabled |-> TRUE, max_entries |-> CACHE_MAX_ENTRIES, created |-> 0]

(* spec in _AGENT_CACHE *)
CacheHas(cache, spec) == \E i \in DOMAIN cache : cache[i].spec = spec
CachedAgent(cache, spec) == cache[CHOOSE i \in DOMAIN cache : cache[i].spec = spec].agent

(* _AGENT_CACHE[spec] = agent; _AGENT_CACHE.move_to_end(spec) *)
MoveToEnd(cache, spec, agent) ==
    Append(SelectSeq(cache, LAMBDA e : e.spec # spec), [spec |-> spec, agent |-> agent])

(* while len(_AGENT_CACHE) > _CACHE_MAX_ENTRIES: popitem(last=False) *)
Evict(cache, max_entries) ==
    IF Len(cache) > max_entries
    THEN SubSeq(cache, Len(cache) - max_entries + 1, Len(cache))
    ELSE cache

(* cache_allowed = _CACHE_ENABLED if enable_cache is None else enable_cache *)
CacheAllowed(m, enable_cache) == IF enable_cache = None THEN m.enabled ELSE enable_cache[1]

(* create_agent: the module afterwards and what the call gives back; an   *)
(* agent is named by the number of its construction                       *)
CreateAgent(m, spec, enable_cache, installed) ==
    IF ~installed
    THEN [module |-> m, result |-> Raised("ImportError: Agno no esta instalado")]
    ELSE IF CacheAllowed(m, enable_cache) /\ CacheHas(m.cache, spec)
    THEN [module |-> [m EXCEPT !.cache = MoveToEnd(@, spec, CachedAgent(@, spec))],
          result |-> Returned(CachedAgent(m.cache, spec))]
    ELSE LET agent == m.created + 1
         IN  [module |-> [m EXCEPT !.created = agent,
                                   !.cache = IF CacheAllowed(m, enable_cache)
                                             THEN Evict(MoveToEnd(@, spec, agent),
                                                        m.max_entries)
                                             ELSE @],
              result |-> Returned(agent)]

(* _configure_cache *)
ConfigureCache(m, enable_agent_cache, max_entries) ==
    [m EXCEPT !.enabled = enable_agent_cache,
              !.max_entries = IF max_entries # None THEN Max(1, max_entries[1]) ELSE @,
              !.cache = IF ~enable_agent_cache THEN <<>> ELSE @]

-----------------------------------------------------------------------------
(* earthquake_search.py: EarthquakeSearcher *)

(* EarthquakeSearcher(...): last_errors = {} *)
NewSearcher == [last_errors |-> <<>>]

(* Coverage of the EMSC catalogue, in degrees *)
EMSC_COVERAGE == [lat_min |-> 25, lat_max |-> 75, lon_min |-> -15, lon_max |-> 45]
InEmscCoverage(query) ==
    /\ EMSC_COVERAGE.lat_min <= query.latitude /\ query.latitude <= EMSC_COVERAGE.lat_max
    /\ EMSC_COVERAGE.lon_min <= query.longitude /\ query.longitude <= EMSC_COVERAGE.lon_max

(* data.get("features", []) of a fetched document; a failed fetch raises *)
Features(fetched) ==
    IF fetched.kind = "raise" THEN fetched
    ELSE Returned(IF "features" \in DOMAIN fetched.value THEN fetched.value.features ELSE <<>>)

(* usgs_search *)
UsgsSearch(query, fetched) == Features(fetched)

(* emsc_search *)
EmscSearch(query, fetched) ==
    IF ~InEmscCoverage(query)
    THEN Raised("EMSC search not available for coordinates outside Europe/Mediterranean coverage")
    ELSE Features(fetched)

(* self.last_errors = {} at the start of search_all *)
StartErrorsKeep(last_errors) == last_errors
StartErrors(last_errors) == <<>>

(* One try/except block of search_all on the results and errors so far *)
SearchStep(acc, source, outcome) ==
    IF outcome.kind = "return"
    THEN [acc EXCEPT !.results = DictSet(@, source, outcome.value)]
    ELSE [acc EXCEPT !.last_errors = DictSet(@, source, outcome.exc)]

(* search_all: the searcher afterwards and the results returned *)
SearchAll(s, query, usgs_fetched, emsc_fetched) ==
    LET start == [results |-> <<>>, last_errors |-> StartErrors(s.last_errors)]
        usgs == SearchStep(start, "usgs", UsgsSearch(query, usgs_fetched))
        emsc == SearchStep(usgs, "emsc", EmscSearch(query, emsc_fetched))
    IN  [searcher |-> [s EXCEPT !.last_errors = emsc.last_errors],
         result |-> Returned(emsc.results)]

-----------------------------------------------------------------------------
(* Arrays and collections: who owns them and which statements write them *)

(* The objects a caller hands to the engine, and the module's own globals *)
CallerObjects == {"trace_data", "picks", "stations", "observations", "module globals"}

(* An array or list the running function has allocated itself *)
LocalBuffer == "local"

(* One step of a pipeline: the buffer it returns and the buffers it has   *)
(* written in place                                                       *)
Buffers(out, writes) == [out |-> out, writes |-> writes]

(* np.asarray(x, dtype=float): the same array when x is a float ndarray *)
NpAsArray(buf) == buf

(* The array of the temporary obspy Trace: Trace(data=data.copy()) *)
ResponseTraceDataNoCopy(buf) == buf
ResponseTraceData(buf) == LocalBuffer

(* _remove_instrument_response: remove_response rewrites the temporary    *)
(* trace's array; the corrected array is returned on success, the input   *)
(* array on every other path                                              *)
RemoveInstrumentResponseBuffers(buf, inventory_path, outcome) ==
    IF inventory_path = None \/ outcome \in {"no_obspy", "not_found"}
    THEN Buffers(buf, {})
    ELSE IF outcome = "removed"
    THEN Buffers(ResponseTraceData(buf), {ResponseTraceData(buf)})
    ELSE Buffers(buf, {ResponseTraceData(buf)})

(* detr = data - (m * x + c): the array that detr -= detr.mean() writes *)
DetrendedInPlace(buf) == buf
Detrended(buf) == LocalBuffer

(* _preprocess_array: an empty input is returned as it is; otherwise the  *)
(* detrended array and the taper window are written and a new product is  *)
(* returned                                                               *)
PreprocessArrayBuffers(buf, n) ==
    IF n = 0
    THEN Buffers(buf, {})
    ELSE Buffers(LocalBuffer, {Detrended(buf), LocalBuffer})

(* _bandpass: obspy's filter or the FFT fallback, which zeroes bins of    *)
(* its own spectrum; both return a new array                              *)
BandpassBuffers(buf, n) ==
    IF n = 0 THEN Buffers(buf, {}) ELSE Buffers(LocalBuffer, {LocalBuffer})

(* _integrate: np.cumsum of a new array *)
IntegrateBuffers(buf, n) ==
    IF n = 0 THEN Buffers(buf, {}) ELSE Buffers(LocalBuffer, {})

(* Buffers written by one run of estimate_local_magnitude_wa_with_response *)
WaWritten(picks, n, sr, station, inventory_path, trace_stats, env) ==
    IF ~WaReachesPipeline(picks, n, sr, station)
    THEN {}
    ELSE LET data == NpAsArray("trace_data")
             corrected == RemoveInstrumentResponseBuffers(data, inventory_path, env.inv)
             removed == JoinedContainsExitosamente(
                            RemoveInstrumentResponse(inventory_path, env.inv))
             used == IF inventory_path # None /\ removed THEN corrected.out ELSE data
             data_pp == PreprocessArrayBuffers(used, n)
             data_bp == BandpassBuffers(data_pp.out, n)
             passes == IntegrationPasses(DetectUnitsFromTraceStats(trace_stats).units)
             vel == IF passes >= 1 THEN IntegrateBuffers(data_bp.out, n) ELSE data_bp
             disp == IF passes >= 2 THEN IntegrateBuffers(vel.out, n - 1) ELSE vel
             wa_mm == BandpassBuffers(disp.out, n - passes)
         IN  (IF inventory_path # None THEN corrected.writes ELSE {})
               \cup data_pp.writes \cup data_bp.writes \cup vel.writes
               \cup disp.writes \cup wa_mm.writes

(* The environment recorded with a call, for the operations that have one *)
EnvOf(c) == IF "env" \in DOMAIN c THEN c.env ELSE UnusedEnv

(* Buffers written by the operation of call record c in environment env.  *)
(* The placeholder estimator slices and reduces trace_data, the detector  *)
(* reads its array into new ones, the locator appends to lists it has     *)
(* created itself                                                         *)
WrittenBy(c, env) ==
    CASE c.op \in {"estimate_local_magnitude_wa_with_response",
                   "estimate_local_magnitude_wa"} ->
           WaWritten(c.picks, Len(c.trace_data), c.trace_sampling_rate, c.station,
                     c.inventory_path, c.trace_stats, env)
      [] c.op = "estimate_magnitude_wood_anderson" ->
           IF c.trace_sampling_rate <= 0 \/ Len(c.trace_data) = 0
           THEN {}
           ELSE WaWritten(c.picks, Len(c.trace_data), c.trace_sampling_rate, c.station,
                          c.inventory_path, c.trace_stats, env)
      [] c.op = "locate_event_1d" ->
           IF Len(c.observations) = 0 THEN {} ELSE {LocalBuffer}
      [] OTHER -> {}

-----------------------------------------------------------------------------
(* State machine *)

NoCall == [op |-> "none"]
NoResult == [kind |-> "none"]

Init ==
    /\ pc = "idle"
    /\ call = NoCall
    /\ result = NoResult
    /\ again = NoResult
    /\ written = {}
    /\ session = SeismicSession
    /\ agents = AgentModule
    /\ searcher = NewSearcher
    /\ before = NoBefore
    /\ widgets = NoWidgets

CallWaWithResponse ==
    /\ pc = "idle"
    /\ \E picks \in PickLists, sr \in SamplingRates, n \in TraceLengths,
          inventory_path \in InventoryPaths, trace_stats \in TraceStatsValues :
         \E trace_data \in {Zeros(n), Pulse(n, 3, 100)} :
           \E env \in WaEnvs(picks, trace_data, sr, TargetStation, inventory_path, trace_stats) :
             /\ call' = [op |-> "estimate_local_magnitude_wa_with_response",
                         picks |-> picks, trace_data |-> trace_data,
                         trace_sampling_rate |-> sr, station |-> TargetStation,
                         inventory_path |-> inventory_path, trace_stats |-> trace_stats,
                         env |-> env]
             /\ result' = Returned(EstimateLocalMagnitudeWaWithResponse(
                              picks, Len(trace_data), sr, TargetStation,
                              inventory_path, trace_stats, env))
    /\ pc' = "done"
    /\ again' = NoResult
    /\ written' = WrittenBy(call', EnvOf(call'))
    /\ UNCHANGED appVars

CallPlaceholder ==
    /\ pc = "idle"
    /\ \E picks \in PickLists, sr \in SamplingRates, n \in {0, MaxTraceLen} :
         \E trace_data \in RawTraces(n) :
           /\ call' = [op |-> "estimate_local_magnitude_placeholder",
                       picks |-> picks, trace_data |-> trace_data,
                       trace_sampling_rate |-> sr, station |-> TargetStation]
           /\ result' = Returned(EstimateLocalMagnitudePlaceholder(
                            picks, trace_data, sr, TargetStation))
    /\ pc' = "done"
    /\ again' = NoResult
    /\ written' = WrittenBy(call', EnvOf(call'))
    /\ UNCHANGED appVars

CallServiceWoodAnderson ==
    /\ pc = "idle"
    /\ \E picks \in PickLists, sr \in SamplingRates, n \in {0, MaxTraceLen} :
         \E trace_data \in {Zeros(n), Pulse(n, 3, 100)} :
           \E env \in WaEnvs(picks, trace_data, sr, TargetStation, NoInventory, NoStats) :
             /\ call' = [op |-> "estimate_magnitude_wood_anderson",
                         picks |-> picks, trace_data |-> trace_data,
                         trace_sampling_rate |-> sr, station |-> TargetStation,
                         inventory_path |-> NoInventory, trace_stats |-> NoStats,
                         env |-> env]
             /\ result' = ServiceEstimateMagnitudeWoodAnderson(
                              picks, trace_data, sr, TargetStation, env)
    /\ pc' = "done"
    /\ again' = NoResult
    /\ written' = WrittenBy(call', EnvOf(call'))
    /\ UNCHANGED appVars

CallWaBasic ==
    /\ pc = "idle"
    /\ \E picks \in PickLists, sr \in SamplingRates, n \in TraceLengths :
         \E trace_data \in {Zeros(n), Pulse(n, 3, 100)} :
           \E env \in WaEnvs(picks, trace_data, sr, TargetStation, NoInventory, NoStats) :
             /\ call' = [op |-> "estimate_local_magnitude_wa",
                         picks |-> picks, trace_data |-> trace_data,
                         trace_sampling_rate |-> sr, station |-> TargetStation,
                         inventory_path |-> NoInventory, trace_stats |-> NoStats,
                         env |-> env]
             /\ result' = Returned(EstimateLocalMagnitudeWa(
                              picks, Len(trace_data), sr, TargetStation, env))
    /\ pc' = "done"
    /\ again' = NoResult
    /\ written' = WrittenBy(call', EnvOf(call'))
    /\ UNCHANGED appVars

(* Amplitudes in thousandths of a mm and distances in hundredths of a km: *)
(* invalid values, both branches of the curve, the break and the          *)
(* distances just beyond it                                               *)
MlAmplitudes == {-1000, 0, 1, 1000, 2000, 10000}
MlDistances ==
    {-100, 0, 1000, 3000, HB_BREAK, HB_BREAK + 1, HB_BREAK + 52, HB_BREAK + 53, 10000}

CallComputeMl ==
    /\ pc = "idle"
    /\ \E amplitude_mm \in MlAmplitudes, distance_km \in MlDistances :
         /\ call' = [op |-> "_compute_ml_hutton_boore",
                     amplitude_mm |-> amplitude_mm, distance_km |-> distance_km]
         /\ result' = ComputeMlHuttonBoore(amplitude_mm, distance_km)
    /\ pc' = "done"
    /\ again' = NoResult
    /\ written' = WrittenBy(call', EnvOf(call'))
    /\ UNCHANGED appVars

CallLocate ==
    /\ pc = "idle"
    /\ \E observations \in ObsLists, grid \in GridPairs, min_stations \in 1..3 :
         /\ call' = [op |-> "locate_event_1d", stations |-> LocateStations,
                     observations |-> observations, model |-> CrustModel,
                     grid_x |-> grid[1], grid_y |-> grid[2],
                     min_stations |-> min_stations, scenario |-> None]
         /\ result' = LocateEvent1d(LocateStations, observations, CrustModel,
                                    grid[1], grid[2], min_stations)
    /\ pc' = "done"
    /\ again' = NoResult
    /\ written' = WrittenBy(call', EnvOf(call'))
    /\ UNCHANGED appVars

CallLocateSynthetic ==
    /\ pc = "idle"
    /\ \E stations \in StationLayouts, epi \in ScenarioEpicentres,
          t0 \in ScenarioOriginTimes, model \in ScenarioModels :
         LET observations == SyntheticObs(stations, epi[1], epi[2], t0, model) IN
         /\ call' = [op |-> "locate_event_1d", stations |-> stations,
                     observations |-> observations, model |-> model,
                     grid_x |-> ScenarioGridX, grid_y |-> ScenarioGridY,
                     min_stations |-> 2,
                     scenario |-> Some([x |-> epi[1], y |-> epi[2], t0 |-> t0])]
         /\ result' = LocateEvent1d(stations, observations, model,
                                    ScenarioGridX, ScenarioGridY, 2)
    /\ pc' = "done"
    /\ again' = NoResult
    /\ written' = WrittenBy(call', EnvOf(call'))
    /\ UNCHANGED appVars

CallSuggestPicks ==
    /\ pc = "idle"
    /\ \E data \in DetectorTraces, sr \in DetectorRates, lta \in LtaWindows,
          on \in OnThresholds, max_suggestions \in 0..MaxSuggestions, obspy \in BOOLEAN :
         \E short_input \in IF obspy /\ Len(data) > 0 /\ Len(data) < NLta(10, lta, sr)
                            THEN {"raise", "zeros"} ELSE {"unused"} :
           /\ call' = [op |-> "suggest_picks_sta_lta", data |-> data, sampling_rate |-> sr,
                       sta |-> 10, lta |-> lta, on |-> on, off |-> 10,
                       max_suggestions |-> max_suggestions, obspy |-> obspy,
                       short_input |-> short_input]
           /\ result' = SuggestPicksStaLta(data, sr, 10, lta, on, 10, max_suggestions,
                                           obspy, short_input)
    /\ pc' = "done"
    /\ again' = NoResult
    /\ written' = WrittenBy(call', EnvOf(call'))
    /\ UNCHANGED appVars

(* The detector called with other window lengths (tenths of a second) on   *)
(* a quiet trace and on a trace with one pulse                             *)
StaWindows == {5, 10, 15, 17, 25}
LongWindows == {20, 25, 40}
WindowTraces == {Zeros(MaxSamples), Pulse(MaxSamples, MaxSamples, 4)}

CallSuggestPicksWindows ==
    /\ pc = "idle"
    /\ \E data \in WindowTraces, sr \in DetectorRates, sta \in StaWindows,
          lta \in LongWindows, on \in OnThresholds, obspy \in BOOLEAN :
         \E short_input \in IF obspy /\ Len(data) < NLta(sta, lta, sr)
                            THEN {"raise", "zeros"} ELSE {"unused"} :
           /\ call' = [op |-> "suggest_picks_sta_lta", data |-> data, sampling_rate |-> sr,
                       sta |-> sta, lta |-> lta, on |-> on, off |-> 10,
                       max_suggestions |-> MaxSuggestions, obspy |-> obspy,
                       short_input |-> short_input]
           /\ result' = SuggestPicksStaLta(data, sr, sta, lta, on, 10, MaxSuggestions,
                                           obspy, short_input)
    /\ pc' = "done"
    /\ again' = NoResult
    /\ written' = WrittenBy(call', EnvOf(call'))
    /\ UNCHANGED appVars

-----------------------------------------------------------------------------
(* The pages acting on the session *)

DatasetNames == {"alpha.ms", "beta.ms"}
UnknownDataset == "missing.ms"
SessionStreams == {<<>>, <<"A-0", "A-1">>, <<"B-0", "", "B-0">>}
Summaries == {None, Some("Alpha summary"), Some("Beta summary")}
SessionLabels == {"A-0", "A-1", "B-0", "Trace 2"}

CallRegisterStream ==
    /\ pc = "idle"
    /\ \E stream \in SessionStreams, name \in DatasetNames, summary \in Summaries :
         /\ call' = [op |-> "register_stream", stream |-> stream, name |-> name,
                     summary |-> summary]
         /\ session' = RegisterStream(session, stream, name, summary)
    /\ result' = Returned(session')
    /\ before' = session
    /\ pc' = "done"
    /\ again' = NoResult
    /\ written' = {}
    /\ UNCHANGED <<agents, searcher, widgets>>

CallSetCurrentStream ==
    /\ pc = "idle"
    /\ \E name \in DatasetNames \cup {UnknownDataset} :
         /\ call' = [op |-> "set_current_stream", name |-> name]
         /\ session' = SetCurrentStream(session, name).session
         /\ result' = Returned(SetCurrentStream(session, name).value)
    /\ before' = session
    /\ pc' = "done"
    /\ again' = NoResult
    /\ written' = {}
    /\ UNCHANGED <<agents, searcher, widgets>>

CallSetSelectedTrace ==
    /\ pc = "idle"
    /\ \E label \in SessionLabels :
         /\ call' = [op |-> "set_selected_trace", label |-> label]
         /\ session' = SetSelectedTrace(session, label).session
         /\ result' = Returned(SetSelectedTrace(session, label).value)
    /\ before' = session
    /\ pc' = "done"
    /\ again' = NoResult
    /\ written' = {}
    /\ UNCHANGED <<agents, searcher, widgets>>

(* The interpreter page stores an analysis of the current dataset *)
StoreAiResult ==
    /\ pc = "idle"
    /\ session.current_stream_name # None
    /\ call' = [op |-> "store_ai_result", key |-> "analysis"]
    /\ session' = [session EXCEPT !.ai_results = @ \cup {"analysis"}]
    /\ result' = Returned(None)
    /\ before' = session
    /\ pc' = "done"
    /\ again' = NoResult
    /\ written' = {}
    /\ UNCHANGED <<agents, searcher, widgets>>

-----------------------------------------------------------------------------
(* The waveform viewer's pick controls and the service's suggestions *)

MaxSessionPicks == 2

(* Defaults of suggest_picks_sta_lta and of WaveformServiceConfig: sta,   *)
(* lta and off in tenths of a second, on in tenths                        *)
SuggestDefaults == [sta |-> 10, lta |-> 100, on |-> 25, off |-> 10, max_suggestions |-> 3]
WaveformServiceConfig == [max_suggestions |-> 3, sta |-> 10, lta |-> 100, on |-> 25, off |-> 10]

(* PickSuggestion(time_rel=..., score=..., phase=...): method keeps its default *)
PickSuggestion(time_rel, score, phase) ==
    [time_rel |-> time_rel, score |-> score, phase |-> phase, method |-> "sta_lta"]

(* WaveformAnalysisService.suggest_picks *)
ServiceSuggestPicks(data, sr, obspy, short_input) ==
    LET c == WaveformServiceConfig
        suggestions == SuggestPicksStaLta(data, sr, c.sta, c.lta, c.on, c.off,
                                          c.max_suggestions, obspy, short_input)
    IN  IF suggestions.kind = "raise" THEN suggestions
        ELSE Returned([k \in DOMAIN suggestions.value |->
                 LET s == suggestions.value[k]
                 IN  PickSuggestion(s.time_rel, Max(s.score, 0),
                                    IF "phase" \in DOMAIN s THEN s.phase ELSE "P?")])

(* The viewer's "Sugerir (STA/LTA)" button: an exception is reported and  *)
(* leaves no suggestions                                                  *)
ViewerSuggestions(data, sr, obspy, short_input) ==
    LET d == SuggestDefaults
        suggestions == SuggestPicksStaLta(data, sr, d.sta, d.lta, d.on, d.off,
                                          d.max_suggestions, obspy, short_input)
    IN  IF suggestions.kind = "raise" THEN <<>> ELSE suggestions.value

(* The active trace of the viewer *)
ViewerStation == "AAA"
ViewerChannel == "HHZ"
ViewerTraces == {Zeros(10), Pulse(10, 10, 4), Pulse(12, 11, 4)}
WindowStarts == {0, 5000}

(* "Anadir P (inicio ventana)" / "Anadir S (inicio ventana)" *)
ViewerAddPick ==
    /\ pc = "idle"
    /\ Len(session.picks) < MaxSessionPicks
    /\ \E phase \in {"P", "S"}, start_time \in WindowStarts :
         /\ call' = [op |-> "viewer_add_pick", phase |-> phase, time_rel |-> start_time]
         /\ session' = AddPick(session, phase, start_time, ViewerStation, ViewerChannel,
                               ADD_PICK_DEFAULT_METHOD)
    /\ result' = Returned(None)
    /\ before' = session
    /\ pc' = "done"
    /\ again' = NoResult
    /\ written' = {}
    /\ UNCHANGED <<agents, searcher, widgets>>

(* "Limpiar picks" *)
ViewerClearPicks ==
    /\ pc = "idle"
    /\ session.picks # <<>>
    /\ call' = [op |-> "viewer_clear_picks"]
    /\ session' = ClearPicks(session)
    /\ result' = Returned(None)
    /\ before' = session
    /\ pc' = "done"
    /\ again' = NoResult
    /\ written' = {}
    /\ UNCHANGED <<agents, searcher, widgets>>

(* "Sugerir (STA/LTA)": the candidates are listed, each with a "+ Pick" button *)
ViewerSuggest ==
    /\ pc = "idle"
    /\ \E data \in ViewerTraces, obspy \in BOOLEAN :
         /\ call' = [op |-> "viewer_suggest", data |-> data, obspy |-> obspy]
         /\ result' = Returned(ViewerSuggestions(data, 1, obspy, "unused"))
    /\ pc' = "done"
    /\ again' = NoResult
    /\ written' = {}
    /\ before' = session
    /\ UNCHANGED <<session, agents, searcher, widgets>>

(* "+ Pick" next to a listed candidate *)
ViewerAcceptSuggestion ==
    /\ pc = "done"
    /\ call.op = "viewer_suggest"
    /\ Len(session.picks) < MaxSessionPicks
    /\ \E k \in DOMAIN result.value :
         /\ call' = [op |-> "viewer_accept_suggestion", suggestion |-> result.value[k]]
         /\ session' = AddPick(session, "P", result.value[k].time_rel, ViewerStation,
                               ViewerChannel, ADD_PICK_DEFAULT_METHOD)
    /\ result' = Returned(None)
    /\ before' = session
    /\ pc' = "done"
    /\ again' = NoResult
    /\ written' = {}
    /\ UNCHANGED <<agents, searcher, widgets>>

CallServiceSuggestPicks ==
    /\ pc = "idle"
    /\ \E data \in ViewerTraces, obspy \in BOOLEAN :
         /\ call' = [op |-> "suggest_picks", data |-> data, sampling_rate |-> 1,
                     obspy |-> obspy]
         /\ result' = ServiceSuggestPicks(data, 1, obspy, "unused")
    /\ pc' = "done"
    /\ again' = NoResult
    /\ written' = {}
    /\ before' = NoBefore
    /\ UNCHANGED <<session, agents, searcher, widgets>>

-----------------------------------------------------------------------------
(* The agent suite being loaded and configured *)

MaxAgents == 4
AgentSpecs == {"Role A", "Role B", "Role C"}

CallCreateAgent ==
    /\ pc = "idle"
    /\ agents.created < MaxAgents
    /\ \E spec \in AgentSpecs, enable_cache \in {None, Some(TRUE), Some(FALSE)},
          installed \in BOOLEAN :
         /\ call' = [op |-> "create_agent", spec |-> spec, enable_cache |-> enable_cache,
                     installed |-> installed]
         /\ agents' = CreateAgent(agents, spec, enable_cache, installed).module
         /\ result' = CreateAgent(agents, spec, enable_cache, installed).result
    /\ before' = agents
    /\ pc' = "done"
    /\ again' = NoResult
    /\ written' = {}
    /\ UNCHANGED <<session, searcher, widgets>>

CallConfigureCache ==
    /\ pc = "idle"
    /\ \E enable_agent_cache \in BOOLEAN, max_entries \in {None, Some(0), Some(2), Some(3)} :
         /\ call' = [op |-> "_configure_cache", enable_agent_cache |-> enable_agent_cache,
                     max_entries |-> max_entries]
         /\ agents' = ConfigureCache(agents, enable_agent_cache, max_entries)
    /\ result' = Returned(None)
    /\ before' = agents
    /\ pc' = "done"
    /\ again' = NoResult
    /\ written' = {}
    /\ UNCHANGED <<session, searcher, widgets>>

-----------------------------------------------------------------------------
(* The catalogue search being used *)

Queries ==
    {[latitude |-> 41, longitude |-> 12], [latitude |-> 25, longitude |-> -15],
     [latitude |-> 0, longitude |-> 0], [latitude |-> 76, longitude |-> 12]}
NotFetched == [kind |-> "none"]
Fetches ==
    {Returned([features |-> <<"M3.2 Test">>]), Returned([features |-> <<>>]),
     Returned([count |-> 0]), Raised("status=503"), Raised("EMSC offline")}

CallSearchAll ==
    /\ pc = "idle"
    /\ \E query \in Queries, usgs_fetched \in Fetches :
         \E emsc_fetched \in IF InEmscCoverage(query) THEN Fetches ELSE {NotFetched} :
           /\ call' = [op |-> "search_all", query |-> query,
                       usgs_fetched |-> usgs_fetched, emsc_fetched |-> emsc_fetched]
           /\ searcher' = SearchAll(searcher, query, usgs_fetched, emsc_fetched).searcher
           /\ result' = SearchAll(searcher, query, usgs_fetched, emsc_fetched).result
    /\ before' = searcher
    /\ pc' = "done"
    /\ again' = NoResult
    /\ written' = {}
    /\ UNCHANGED <<session, agents, widgets>>

(* The location page building its observations from the picks of the     *)
(* session                                                                *)
MaxPagePicks == 3
PagePickUniverse ==
    [station : {"AAA"}, phase : {"P", "S"}, time_rel : {10, 20, 100}]
    \cup {[station |-> "BBB", phase |-> "P", time_rel |-> 10],
          [station |-> "BBB", phase |-> "S", time_rel |-> 20]}
PagePickLists == SeqsUpTo(PagePickUniverse, MaxPagePicks)

CallCollectPsObservations ==
    /\ pc = "idle"
    /\ \E picks \in PagePickLists :
         /\ call' = [op |-> "_collect_ps_observations", picks |-> picks]
         /\ result' = Returned(CollectPsObservations(picks))
    /\ pc' = "done"
    /\ again' = NoResult
    /\ written' = {}
    /\ UNCHANGED appVars

(* One run of the viewer page: what the selectbox and the sidebar hold    *)
(* and whether a file sits in the uploader                                *)
ViewerFiles ==
    [name : DatasetNames, stream : {<<"A-0", "A-1">>, <<"A-0">>, <<>>}, summary : {None}]

ViewerRender ==
    /\ pc = "idle"
    /\ \E dataset_choice \in 1..2, station_choice \in 0..2,
          upload \in {None} \cup {Some(f) : f \in ViewerFiles} :
         LET out == RenderViewer(session, widgets, dataset_choice, upload, station_choice)
         IN  /\ call' = [op |-> "viewer_render", dataset_choice |-> dataset_choice,
                         station_choice |-> station_choice, upload |-> upload]
             /\ session' = out.session
             /\ widgets' = out.widgets
             /\ result' = Returned([plotted |-> out.plotted, from_cache |-> out.from_cache])
    /\ before' = session
    /\ pc' = "done"
    /\ again' = NoResult
    /\ written' = {}
    /\ UNCHANGED <<agents, searcher>>

(* What the inventory lookup can do when the same call is made again.     *)
(* _remove_instrument_response stamps its temporary trace with            *)
(* UTCDateTime.now() and remove_response picks the response valid at that *)
(* time: with the same file the lookup may match at one call and raise at *)
(* the other.  Every other outcome is decided by the arguments, the file  *)
(* system and the installed libraries.                                    *)
InventoryOutcomesLater(first) ==
    IF first \in {"removed", "exception"} THEN {"removed", "exception"} ELSE {first}

(* The environment of a second call with the same arguments: the filter   *)
(* chain is a function of its input data, which changes only with the     *)
(* outcome of the response removal                                        *)
WaEnvsLater(c) ==
    {e \in [inv : InventoryOutcomesLater(c.env.inv),
            wa : {c.env.wa} \cup
                 FilteredSignals(c.trace_data,
                                 WaLen(Len(c.trace_data),
                                       DetectUnitsFromTraceStats(c.trace_stats).units))] :
        e.inv = c.env.inv => e.wa = c.env.wa}

(* The operation of call record c, run on c's arguments in environment env *)
RunCall(c, env) ==
    CASE c.op = "estimate_local_magnitude_wa_with_response" ->
           Returned(EstimateLocalMagnitudeWaWithResponse(
                        c.picks, Len(c.trace_data), c.trace_sampling_rate, c.station,
                        c.inventory_path, c.trace_stats, env))
      [] c.op = "estimate_local_magnitude_wa" ->
           Returned(EstimateLocalMagnitudeWa(
                        c.picks, Len(c.trace_data), c.trace_sampling_rate, c.station, env))
      [] c.op = "estimate_magnitude_wood_anderson" ->
           ServiceEstimateMagnitudeWoodAnderson(
               c.picks, c.trace_data, c.trace_sampling_rate, c.station, env)
      [] c.op = "estimate_local_magnitude_placeholder" ->
           Returned(EstimateLocalMagnitudePlaceholder(
                        c.picks, c.trace_data, c.trace_sampling_rate, c.station))
      [] c.op = "_compute_ml_hutton_boore" ->
           ComputeMlHuttonBoore(c.amplitude_mm, c.distance_km)
      [] c.op = "locate_event_1d" ->
           LocateEvent1d(c.stations, c.observations, c.model, c.grid_x, c.grid_y,
                         c.min_stations)
      [] c.op = "suggest_picks_sta_lta" ->
           SuggestPicksStaLta(c.data, c.sampling_rate, c.sta, c.lta, c.on, c.off,
                              c.max_suggestions, c.obspy, c.short_input)

(* The caller makes the call it has just made once more, with the same    *)
(* arguments, and keeps both outcomes                                     *)
CallAgain ==
    /\ pc = "done"
    /\ \E env \in IF "env" \in DOMAIN call THEN WaEnvsLater(call) ELSE {UnusedEnv} :
         /\ again' = RunCall(call, env)
         /\ written' = written \cup WrittenBy(call, env)
    /\ pc' = "repeated"
    /\ UNCHANGED <<call, result>>
    /\ UNCHANGED appVars

(* The caller is done with the outcome; the engine keeps nothing *)
Return ==
    /\ pc \in {"done", "repeated"}
    /\ pc' = "idle"
    /\ call' = NoCall
    /\ result' = NoResult
    /\ again' = NoResult
    /\ written' = {}
    /\ before' = NoBefore
    /\ UNCHANGED <<session, agents, searcher, widgets>>

Next ==
    \/ CallWaWithResponse
    \/ CallPlaceholder
    \/ CallServiceWoodAnderson
    \/ CallWaBasic
    \/ CallComputeMl
    \/ CallLocate
    \/ CallLocateSynthetic
    \/ CallSuggestPicks
    \/ Return

Spec == Init /\ [][Next]_vars

(* The same engine with a caller that may repeat its call *)
NextRepeat ==
    \/ Next
    \/ CallAgain

SpecRepeat == Init /\ [][NextRepeat]_vars

(* The pages registering datasets, switching between them and selecting   *)
(* traces                                                                 *)
NextSession ==
    \/ CallRegisterStream
    \/ CallSetCurrentStream
    \/ CallSetSelectedTrace
    \/ StoreAiResult
    \/ Return

SpecSession == Init /\ [][NextSession]_vars

(* The viewer's pick controls and the suggestion service *)
NextViewer ==
    \/ ViewerAddPick
    \/ ViewerClearPicks
    \/ ViewerSuggest
    \/ ViewerAcceptSuggestion
    \/ CallServiceSuggestPicks
    \/ Return

SpecViewer == Init /\ [][NextViewer]_vars

(* The agent cache being configured and used *)
NextAgents ==
    \/ CallCreateAgent
    \/ CallConfigureCache
    \/ Return

SpecAgents == Init /\ [][NextAgents]_vars

(* One searcher used for one query after another *)
NextSearch ==
    \/ CallSearchAll
    \/ Return

SpecSearch == Init /\ [][NextSearch]_vars

(* The location page calling the locator *)
NextLocate ==
    \/ CallLocate
    \/ CallLocateSynthetic
    \/ Return

SpecLocate == Init /\ [][NextLocate]_vars

(* The detector called with the default and with other windows *)
NextDetector ==
    \/ CallSuggestPicks
    \/ CallSuggestPicksWindows
    \/ Return

SpecDetector == Init /\ [][NextDetector]_vars

(* The location page collecting the P and S pairs *)
NextLocationPage ==
    \/ CallCollectPsObservations
    \/ Return

SpecLocationPage == Init /\ [][NextLocationPage]_vars

(* The waveform viewer rendered again and again *)
NextRender ==
    \/ ViewerRender
    \/ Return

SpecRender == Init /\ [][NextRender]_vars

-----------------------------------------------------------------------------
(* Properties of the magnitude estimators *)

WaOps ==
    {"estimate_local_magnitude_wa_with_response", "estimate_local_magnitude_wa",
     "estimate_magnitude_wood_anderson"}
MagnitudeOps == WaOps \cup {"estimate_local_magnitude_placeholder"}

MagnitudeCallDone == pc = "done" /\ call.op \in MagnitudeOps
WaCallDone == pc = "done" /\ call.op \in WaOps
MagnitudeReturned == MagnitudeCallDone /\ result.kind = "return"
WaReturned == WaCallDone /\ result.kind = "return"

(* The picks the estimators use: the station's first P and first S *)
SelectedP == FirstPick(call.picks, call.station, "P")
SelectedS == FirstPick(call.picks, call.station, "S")
BothSelected == SelectedP # None /\ SelectedS # None

SilentTrace == call.trace_data = Zeros(Len(call.trace_data))

(* C1: whenever the selected P and S picks of a magnitude call satisfy     *)
(* t_S <= t_P, the estimator (Wood-Anderson or placeholder) returns a      *)
(* result with ml = null and a non-empty note, whatever the trace is.      *)
C1_InvalidPair ==
    /\ MagnitudeCallDone
    /\ call.op # "estimate_magnitude_wood_anderson"
    /\ BothSelected
    /\ SelectedS[1].time_rel <= SelectedP[1].time_rel
C1_InvalidPsGivesNull ==
    C1_InvalidPair =>
        /\ result.kind = "return"
        /\ result.value.ml = None
        /\ result.value.notes # ""
C1_Witness ==
    /\ C1_InvalidPair
    /\ SelectedS[1].time_rel < SelectedP[1].time_rel
    /\ call.op = "estimate_local_magnitude_placeholder"
    /\ ~SilentTrace
    /\ call.trace_sampling_rate > 0
    /\ result.value.ml = None
    /\ result.value.notes = "Delta P-S invalida"

(* C6: every magnitude result with a distance has distance_km equal to     *)
(* 8.4 times delta_ps, delta_ps being t_S - t_P of the picks used and      *)
(* positive; 8.4 = 1/((1/3.5) - (1/6.0)) = 3.5*6.0/(6.0 - 3.5).            *)
C6_DistanceIsDeltaTimesFactor ==
    /\ 84 * (60 - 35) = 35 * 60
    /\ (MagnitudeReturned /\ result.value.distance_km # None) =>
          /\ BothSelected
          /\ SelectedS[1].time_rel - SelectedP[1].time_rel > 0
          /\ result.value.delta_ps = Some(SelectedS[1].time_rel - SelectedP[1].time_rel)
          /\ result.value.distance_km[1] = 84 * (SelectedS[1].time_rel - SelectedP[1].time_rel)
C6_Witness ==
    /\ MagnitudeReturned
    /\ result.value.delta_ps = Some(20)
    /\ result.value.distance_km = Some(1680)
    /\ result.value.ml # None

(* C7: for peak_mm > 0 and distance_km > 0 the Wood-Anderson magnitude is  *)
(* log10(peak_mm) - log10A0(distance_km) with log10A0(R) = 0.018 R + 2.17  *)
(* up to 60 km and 0.0038 R + 3.02 beyond; log10A0(10) = 2.35,             *)
(* log10A0(100) = 3.40 and ml(1.0 mm, 10 km) = -2.35.                      *)
C7_Expected(peak_mm, distance_km) ==
    Log10(peak_mm) - (IF distance_km <= 6000
                      THEN 180 * distance_km + 2170000
                      ELSE 38 * distance_km + 3020000)
C7_HuttonBooreFormula ==
    /\ (pc = "done" /\ call.op = "_compute_ml_hutton_boore"
        /\ call.amplitude_mm > 0 /\ call.distance_km > 0) =>
          /\ result = Returned(C7_Expected(call.amplitude_mm, call.distance_km))
          /\ (call.amplitude_mm = 1000 /\ call.distance_km = 1000)
                => result.value = -2350000
          /\ (call.amplitude_mm = 1000 /\ call.distance_km = 10000)
                => result.value = -3400000
    /\ (WaReturned /\ result.value.ml # None) =>
          /\ result.value.amplitude_mm # None /\ result.value.distance_km # None
          /\ result.value.amplitude_mm[1] > 0 /\ result.value.distance_km[1] > 0
          /\ result.value.ml[1] =
                C7_Expected(result.value.amplitude_mm[1], result.value.distance_km[1])
C7_Witness ==
    /\ pc = "done" /\ call.op = "_compute_ml_hutton_boore"
    /\ call.amplitude_mm = 1000 /\ call.distance_km = 10000
    /\ result = Returned(-3400000)

(* C8: a magnitude call whose station lacks a P or an S pick, whose        *)
(* amplitude window is empty or whose peak amplitude is zero returns       *)
(* (never raises) ml = null with a non-empty note and a non-empty          *)
(* warnings list; on the Wood-Anderson path the note for missing picks is  *)
(* "Faltan picks P/S".                                                     *)
C8_CoreCall == MagnitudeCallDone /\ call.op # "estimate_magnitude_wood_anderson"
C8_MissingPick == ~BothSelected
(* the P pick lies at or beyond the end of the trace: no sample in the window *)
C8_WindowEmpty ==
    /\ BothSelected
    /\ SelectedP[1].time_rel >= 0
    /\ SelectedP[1].time_rel * call.trace_sampling_rate >= 10 * Len(call.trace_data)
(* the measured signal is silent: whatever the window, its peak is zero *)
C8_PeakZero ==
    /\ BothSelected
    /\ IF call.op = "estimate_local_magnitude_placeholder"
       THEN SilentTrace
       ELSE call.env.wa = Zeros(Len(call.env.wa))
C8_NotComputable ==
    /\ result.kind = "return"
    /\ result.value.ml = None
    /\ result.value.notes # ""
    /\ result.value.warnings # <<>>
C9_BasicVariantTag ==
    MagnitudeReturned =>
        /\ call.op \in {"estimate_local_magnitude_wa", "estimate_magnitude_wood_anderson"}
              => /\ result.value.method = "wood_anderson"
                 /\ result.value.delta_ps # None
                       => result.value.delta_ps =
                             Some(SelectedS[1].time_rel - SelectedP[1].time_rel)
        /\ result.value.method = "wood_anderson_inst"
              => call.op = "estimate_local_magnitude_wa_with_response"
        /\ result.value.method = "placeholder"
              => call.op = "estimate_local_magnitude_placeholder"

(* C10: every Wood-Anderson result with a computed ml ends its warnings,   *)
(* after all earlier ones, with the response status ("not removed" when    *)
(* instrument_response_removed is false; otherwise the inventory step's    *)
(* own status warning is among the earlier ones), the single-station       *)
(* distance warning and the preliminary-magnitude warning; its note names  *)
(* the method and the response status.                                     *)
C10_Methodology ==
    {"IMPORTANTE: Respuesta instrumental no removida",
     "Distancia estimada de P-S (una estacion)",
     "Magnitud preliminar - requiere calibracion regional"}
-----------------------------------------------------------------------------
(* Properties of the locator *)

LocateDone == pc = "done" /\ call.op = "locate_event_1d"

(* observations with a known station and t_s > t_p, counted on the call *)
C2_ValidCount ==
    Cardinality({i \in DOMAIN call.observations :
                    /\ \E j \in DOMAIN call.stations :
                          call.stations[j].code = call.observations[i].station
                    /\ call.observations[i].t_s > call.observations[i].t_p})

(* C2: with fewer than min_stations valid observations locate_event_1d     *)
(* returns null and does not raise, whatever the grid is (a grid whose     *)
(* construction would raise is never built).                               *)
C2_TooFewStationsGivesNull ==
    (LocateDone /\ C2_ValidCount < call.min_stations) => result = Returned(None)
C2_Witness ==
    /\ LocateDone
    /\ C2_ValidCount = 1 /\ call.min_stations = 2
    /\ Len(call.observations) = 3
    /\ call.grid_x[3] = 0
    /\ result = Returned(None)

SynthDone == LocateDone /\ call.scenario # None
C3_TrueX == call.scenario[1].x
C3_TrueY == call.scenario[1].y
C3_Recovered ==
    /\ result.kind = "return"
    /\ result.value # None
    /\ Abs(result.value[1].x - C3_TrueX) <= call.grid_x[3]
    /\ Abs(result.value[1].y - C3_TrueY) <= call.grid_y[3]
    /\ result.value[1].sum_sq = 0
    /\ result.value[1].rms = 0
C3_NotCollinear ==
    LET a == call.stations[1]
        b == call.stations[2]
        c == call.stations[3]
    IN  (b.x - a.x) * (c.y - a.y) # (c.x - a.x) * (b.y - a.y)
C3_OnGrid ==
    /\ C3_TrueX \in Range(Arange(call.grid_x[1], call.grid_x[2], call.grid_x[3]))
    /\ C3_TrueY \in Range(Arange(call.grid_y[1], call.grid_y[2], call.grid_y[3]))
C3_NoStationAtEpicentre ==
    \A i \in DOMAIN call.stations :
        call.stations[i].x # C3_TrueX \/ call.stations[i].y # C3_TrueY

(* C3 as stated: every zero-noise scenario with 3 stations and a true      *)
(* epicentre inside the grid is located within one grid step with an RMS   *)
(* below 1e-6 s (one tick is 5e-4 s: the RMS is zero); taken here for the  *)
(* physical velocity models, vs < vp.                                      *)
C3_EveryScenarioRecovered == (SynthDone /\ call.model.vs < call.model.vp) => C3_Recovered

(* C3 amended: the scenario is located within one grid step with an RMS    *)
(* below 1e-6 s when the 3 stations are not on one line, vs < vp, and the  *)
(* true epicentre is a grid point at which no station stands.              *)
C3_RegularScenarioRecovered ==
    (/\ SynthDone
     /\ C3_NotCollinear
     /\ call.model.vs < call.model.vp
     /\ C3_OnGrid
     /\ C3_NoStationAtEpicentre) => C3_Recovered
C3_Witness ==
    /\ SynthDone /\ C3_NotCollinear /\ C3_OnGrid /\ C3_NoStationAtEpicentre
    /\ call.model.vs < call.model.vp
    /\ C3_TrueX = 6 /\ C3_TrueY = 2 /\ call.scenario[1].t0 = 2000
    /\ result.value # None
    /\ result.value[1].x = 6 /\ result.value[1].y = 2
    /\ result.value[1].t0 = 2000 /\ result.value[1].rms = 0

-----------------------------------------------------------------------------
(* Properties of the detector *)

SuggestDone == pc = "done" /\ call.op = "suggest_picks_sta_lta"
C4_Duration == (Len(call.data) * 1000) \div call.sampling_rate

C5_NLta == NLta(call.sta, call.lta, call.sampling_rate)
C5_TooShort == Len(call.data) < C5_NLta
(* all samples of one size: every short and long average is the same, the  *)
(* ratio is at most one and stays below a trigger-on threshold above one   *)
C5_NoTrigger ==
    /\ \A i, j \in DOMAIN call.data : Abs(call.data[i]) = Abs(call.data[j])
    /\ call.on > 10

(* C5: suggest_picks_sta_lta returns an empty list and does not raise when *)
(* the trace is shorter than the windows (or empty) or the ratio never     *)
(* exceeds the trigger-on threshold, on both paths; stated for the calls   *)
(* the code of picking.py decides alone (every fallback call, and the      *)
(* preferred path given at least n_lta samples).                           *)
C5_QuietOrShortGivesEmptyList ==
    (/\ SuggestDone
     /\ ~call.obspy \/ ~C5_TooShort \/ Len(call.data) = 0
     /\ C5_TooShort \/ C5_NoTrigger) => result = Returned(<<>>)

-----------------------------------------------------------------------------
(* Properties of the conditioning band *)

C11_PipelineDone ==
    /\ WaReturned
    /\ WaReachesPipeline(call.picks, Len(call.trace_data), call.trace_sampling_rate,
                         call.station)
C11_ClipWarning == W("fmax recortado a Nyquist*0.45")
C11_Warned == \E i \in DOMAIN result.value.warnings : result.value.warnings[i] = C11_ClipWarning
(* 0.45 x Nyquist = 0.225 x sampling rate, in units of 0.005 Hz *)
C11_BoundX2 == call.trace_sampling_rate * 45
C11_CutoffX2 == 2 * BandFmax(call.trace_sampling_rate).fmax

(* C11: with the default band 1-20 Hz, a requested upper cutoff above      *)
(* 0.45 x Nyquist is clamped to 0.45 x Nyquist and the clipping warning is *)
(* in the result's warnings; otherwise the cutoff stays 20 Hz and no       *)
(* clipping warning is issued.                                             *)
C11_ClampAtNyquistFraction ==
    C11_PipelineDone =>
        IF 2 * DEFAULT_BAND_FMAX * 100 > C11_BoundX2
        THEN C11_CutoffX2 = C11_BoundX2 /\ C11_Warned
        ELSE C11_CutoffX2 = 2 * DEFAULT_BAND_FMAX * 100 /\ ~C11_Warned

-----------------------------------------------------------------------------
(* Properties of the grid scan *)

LocateFound == LocateDone /\ result.kind = "return" /\ result.value # None
ScanGx == Arange(call.grid_x[1], call.grid_x[2], call.grid_x[3])
ScanGy == Arange(call.grid_y[1], call.grid_y[2], call.grid_y[3])
(* what the grid point at place i of gx and j of gy evaluates to *)
ScanPoint(i, j) ==
    EvaluatePoint(ScanGx[i], ScanGy[j], ValidObs(call.stations, call.observations),
                  StMap(call.stations), call.model)
ScanPlaces == {p \in (DOMAIN ScanGx) \X (DOMAIN ScanGy) : ScanPoint(p[1], p[2]) # None}
(* place p is visited before place q: outer loop over gx, inner over gy *)
ScanBefore(p, q) == p[1] < q[1] \/ (p[1] = q[1] /\ p[2] < q[2])
(* mean squared residual of a against that of b, the order of the rms *)
MeanSqLess(a, b) == a.sum_sq * b.used_stations < b.sum_sq * a.used_stations
MeanSqEqual(a, b) == a.sum_sq * b.used_stations = b.sum_sq * a.used_stations

(* C12: the location returned is a grid point of minimal RMS among the     *)
(* grid points that produced residuals, and of the points sharing that     *)
(* minimum it is the first in scan order (outer loop over x, inner over    *)
(* y; ascending x then ascending y on a grid of positive steps).           *)
C12_FirstMinimalPoint ==
    LocateFound =>
        LET best == result.value[1]
            at == {p \in (DOMAIN ScanGx) \X (DOMAIN ScanGy) :
                      ScanGx[p[1]] = best.x /\ ScanGy[p[2]] = best.y}
        IN  /\ \E p \in at : ScanPoint(p[1], p[2]) = result.value
            /\ \A p \in at, q \in (DOMAIN ScanGx) \X (DOMAIN ScanGy) :
                  LET point == ScanPoint(q[1], q[2])
                      other == point[1]
                  IN  point # None =>
                        /\ ~MeanSqLess(other, best)
                        /\ ScanBefore(q, p) => MeanSqLess(best, other)
                        /\ (/\ call.grid_x[3] > 0 /\ call.grid_y[3] > 0
                            /\ q # p /\ MeanSqEqual(other, best))
                              => \/ other.x > best.x
                                 \/ other.x = best.x /\ other.y > best.y
(* a tie at the minimum: a later grid point fits as well as the one returned *)
C12_Witness ==
    /\ LocateFound
    /\ \E q \in ScanPlaces :
          LET other == ScanPoint(q[1], q[2])[1] IN
          /\ MeanSqEqual(other, result.value[1])
          /\ other.y > result.value[1].y
          /\ other.x = result.value[1].x
    /\ \E q \in ScanPlaces : MeanSqLess(result.value[1], ScanPoint(q[1], q[2])[1])

-----------------------------------------------------------------------------
(* Properties of the origin time and the residuals *)

C13_Obs == ValidObs(call.stations, call.observations)
(* distance in metres from the returned point to the station of observation i *)
C13_Dist(i) ==
    LET st == StMap(call.stations)[C13_Obs[i].station]
    IN  Hypot(st.x - result.value[1].x, st.y - result.value[1].y)
(* the pooled candidates in the order they are collected: t_p - d/vp and    *)
(* t_s - d/vs of the first valid observation, then of the second, ...       *)
C13_Pool ==
    <<>> \o [k \in 1..(2 * Len(C13_Obs)) |->
                LET i == (k + 1) \div 2
                IN  IF k % 2 = 1
                    THEN C13_Obs[i].t_p - TravelTime(C13_Dist(i), call.model.vp)
                    ELSE C13_Obs[i].t_s - TravelTime(C13_Dist(i), call.model.vs)]
(* v is the k-th smallest value of pool *)
C13_IsKth(pool, v, k) ==
    /\ \E c \in DOMAIN pool : pool[c] = v
    /\ Cardinality({c \in DOMAIN pool : pool[c] < v}) < k
    /\ Cardinality({c \in DOMAIN pool : pool[c] <= v}) >= k

(* C13: the t0 returned is the median of the pooled origin-time candidates *)
(* t_p - d/vp and t_s - d/vs of every valid observation at the returned    *)
(* grid point (the mean of the two middle values of the even-sized pool),  *)
(* and each residual is t_p - (t0 + d/vp) of its observation.              *)
C13_MedianOriginTime ==
    LocateFound =>
        LET loc == result.value[1]
            obs == C13_Obs
            pool == C13_Pool
            half == Len(pool) \div 2
        IN  /\ Len(pool) = 2 * Len(obs)
            /\ \E c, d \in DOMAIN pool :
                  /\ 2 * loc.t0 = pool[c] + pool[d]
                  /\ C13_IsKth(pool, pool[c], half)
                  /\ C13_IsKth(pool, pool[d], half + 1)
            /\ Len(loc.residuals) = Len(obs)
            /\ \A i \in DOMAIN obs :
                  loc.residuals[i] =
                     <<obs[i].station,
                       obs[i].t_p - (loc.t0 + TravelTime(C13_Dist(i), call.model.vp))>>
(* the two middle candidates differ, t0 lies strictly between them and some *)
(* residual is not zero                                                     *)
C13_Witness ==
    /\ LocateFound
    /\ LET pool == C13_Pool
           half == Len(pool) \div 2
       IN  \E c, d \in DOMAIN pool :
              /\ C13_IsKth(pool, pool[c], half)
              /\ C13_IsKth(pool, pool[d], half + 1)
              /\ pool[c] < result.value[1].t0
              /\ result.value[1].t0 < pool[d]
    /\ \E i \in DOMAIN C13_Obs : result.value[1].residuals[i][2] # 0
    /\ Len(C13_Obs) < Len(call.observations)

-----------------------------------------------------------------------------
(* Properties of repeated calls *)

(* C14: an engine operation called twice with identical inputs and        *)
(* identical configuration gives identical results.                       *)
C14_SecondCallSameResult == pc = "repeated" => again = result

-----------------------------------------------------------------------------
(* Frame of the engine operations *)

EngineCallDone == pc \in {"done", "repeated"}

(* C15: when an engine operation has returned or raised, on every path,   *)
(* nothing it wrote in place belongs to the caller or to a module: the    *)
(* sample array, the picks, the stations, the observations and the module *)
(* globals are as they were, and only arrays the call allocated itself    *)
(* have been written                                                      *)
C15_InputsUntouched == EngineCallDone => written \cap CallerObjects = {}

(* A Wood-Anderson estimate that went through response removal, detrend   *)
(* and both filters and returned a magnitude                              *)
C15_Witness ==
    /\ pc = "done"
    /\ call.op = "estimate_local_magnitude_wa_with_response"
    /\ call.env.inv = "removed"
    /\ result.value.ml # None
    /\ written = {LocalBuffer}

-----------------------------------------------------------------------------
(* Properties of the session *)

RegisteredOther ==
    /\ pc = "done"
    /\ call.op = "register_stream"
    /\ before.current_stream_name # Some(call.name)

(* C17: after register_stream with a name that is not the current         *)
(* dataset, that name is current and ai_results is empty; the datasets    *)
(* registered before are listed in the order they were first registered   *)
(* (a name new to the session comes last) and every other dataset's       *)
(* summary is retrievable by name as before                               *)
C17_RegisterSwitchesAndKeepsOthers ==
    RegisteredOther =>
      /\ session.current_stream_name = Some(call.name)
      /\ session.ai_results = {}
      /\ LET old == ListDatasetNames(before)
             new == ListDatasetNames(session)
         IN  IF \E i \in DOMAIN old : old[i] = call.name
             THEN new = old
             ELSE new = Append(old, call.name)
      /\ \A name \in DatasetNames \ {call.name} :
           GetStreamSummary(session, Some(name)) = GetStreamSummary(before, Some(name))

(* A second dataset registered while results of the first were held *)
C17_Witness ==
    /\ RegisteredOther
    /\ before.ai_results # {}
    /\ before.current_stream_name # None
    /\ Len(ListDatasetNames(session)) = 2
    /\ GetStreamSummary(session, before.current_stream_name) # None

SwitchedStream ==
    /\ pc = "done"
    /\ call.op = "set_current_stream"
    /\ result.value # None

(* C18: after set_current_stream(name) on a registered dataset, the       *)
(* selected label is the one selected before when name was already the    *)
(* current dataset and its stream still has a trace with that label; when *)
(* name was not the current dataset and its stream has traces, the        *)
(* selection is the first trace of that stream: its label and the trace   *)
(* itself                                                                 *)
C18_KeepsOrResetsSelection ==
    SwitchedStream =>
      LET stream == result.value[1]
          labels == ListTraceLabels(stream)
      IN  /\ ( /\ before.current_stream_name = Some(call.name)
               /\ before.selected_trace_label # None
               /\ \E i \in DOMAIN labels : Some(labels[i]) = before.selected_trace_label )
             => session.selected_trace_label = before.selected_trace_label
          /\ ( /\ before.current_stream_name # Some(call.name)
               /\ stream # <<>> )
             => /\ session.selected_trace_label = Some(labels[1])
                /\ session.selected_trace = Some(1)

-----------------------------------------------------------------------------
(* Properties of picks and suggestions *)

(* C16: the pick added by accepting a detector suggestion is tagged       *)
(* sta_lta, the pick added by a direct user action is tagged manual, and  *)
(* every suggestion the service returns has method sta_lta and phase P?   *)
C16_OriginTags ==
    /\ (pc = "done" /\ call.op = "viewer_accept_suggestion")
         => session.picks[Len(session.picks)].method = "sta_lta"
    /\ (pc = "done" /\ call.op = "viewer_add_pick")
         => session.picks[Len(session.picks)].method = "manual"
    /\ (pc = "done" /\ call.op = "suggest_picks" /\ result.kind = "return")
         => \A k \in DOMAIN result.value :
              result.value[k].method = "sta_lta" /\ result.value[k].phase = "P?"

-----------------------------------------------------------------------------
(* Properties of the agent cache *)

CreatedWithCache ==
    /\ pc = "done"
    /\ call.op = "create_agent"
    /\ result.kind = "return"
    /\ CacheAllowed(before, call.enable_cache)

(* C19: after a create_agent call that uses the cache, a spec that was    *)
(* cached gets the very agent the cache held and is now the most recently *)
(* used entry; the cache holds at most _CACHE_MAX_ENTRIES agents; and the *)
(* entries that left the cache are the least recently used ones: what     *)
(* remains of the earlier entries is a tail of the earlier order          *)
C19_CacheIsBoundedLru ==
    CreatedWithCache =>
      LET old == SelectSeq(before.cache, LAMBDA e : e.spec # call.spec)
          rest == SubSeq(agents.cache, 1, Len(agents.cache) - 1)
      IN  /\ CacheHas(before.cache, call.spec)
               => result.value = CachedAgent(before.cache, call.spec)
          /\ agents.cache # <<>>
          /\ agents.cache[Len(agents.cache)] = [spec |-> call.spec, agent |-> result.value]
          /\ Len(agents.cache) <= agents.max_entries
          /\ Len(rest) <= Len(old)
          /\ rest = SubSeq(old, Len(old) - Len(rest) + 1, Len(old))

-----------------------------------------------------------------------------
(* Properties of the catalogue search *)

SearchDone == pc = "done" /\ call.op = "search_all"

(* What a source did in the call just made: its features, or the message  *)
(* of its failure                                                         *)
UsgsFailed == call.usgs_fetched.kind = "raise"
EmscFailed == ~InEmscCoverage(call.query) \/ call.emsc_fetched.kind = "raise"

(* C20: search_all returns (never raises); a source that failed in this   *)
(* call is absent from the results and has its message in last_errors; a  *)
(* source that answered is in the results whatever the other one did, and *)
(* has no entry in last_errors even if it failed in an earlier call       *)
C20_SearchAllIsolatesFailures ==
    SearchDone =>
      /\ result.kind = "return"
      /\ IF UsgsFailed
         THEN /\ ~DictHas(result.value, "usgs")
              /\ DictGet(searcher.last_errors, "usgs") = Some(call.usgs_fetched.exc)
         ELSE /\ DictGet(result.value, "usgs") = Some(Features(call.usgs_fetched).value)
              /\ ~DictHas(searcher.last_errors, "usgs")
      /\ IF EmscFailed
         THEN /\ ~DictHas(result.value, "emsc")
              /\ DictHas(searcher.last_errors, "emsc")
              /\ InEmscCoverage(call.query)
                   => DictGet(searcher.last_errors, "emsc") = Some(call.emsc_fetched.exc)
         ELSE /\ DictGet(result.value, "emsc") = Some(Features(call.emsc_fetched).value)
              /\ ~DictHas(searcher.last_errors, "emsc")

(* USGS fails and EMSC answers, on a searcher whose previous call had     *)
(* recorded an EMSC failure                                               *)
C20_Witness ==
    /\ SearchDone
    /\ UsgsFailed /\ ~EmscFailed
    /\ DictHas(before.last_errors, "emsc")
    /\ DictKeys(searcher.last_errors) = <<"usgs">>
    /\ DictKeys(result.value) = <<"emsc">>

-----------------------------------------------------------------------------
(* Properties of the locator's input filter *)

(* an observation the locator is to ignore: no station of the call has its *)
(* code, or its S time is not after its P time                             *)
C21_Ignored(o) ==
    \/ \A j \in DOMAIN call.stations : call.stations[j].code # o.station
    \/ o.t_s <= o.t_p
(* the observations of the call without the ignored ones, in their order *)
RECURSIVE C21_Kept(_)
C21_Kept(obs) ==
    IF obs = <<>> THEN <<>>
    ELSE (IF C21_Ignored(Head(obs)) THEN <<>> ELSE <<Head(obs)>>) \o C21_Kept(Tail(obs))

(* C21: the outcome of locate_event_1d is the outcome of the same call     *)
(* without the observations of unknown stations and without those with     *)
(* t_s <= t_p, and a location returned has one residual for each remaining *)
(* observation, in order, and none for an ignored one.                     *)
C21_IgnoresInvalidObservations ==
    LocateDone =>
        LET kept == C21_Kept(call.observations)
        IN  /\ result = LocateEvent1d(call.stations, kept, call.model,
                                      call.grid_x, call.grid_y, call.min_stations)
            /\ LocateFound =>
                 /\ Len(result.value[1].residuals) = Len(kept)
                 /\ \A i \in DOMAIN kept :
                       result.value[1].residuals[i][1] = kept[i].station
(* a location found from a list holding an observation of an unknown       *)
(* station with t_s > t_p and one of a known station with t_s <= t_p       *)
C21_Witness ==
    /\ LocateFound
    /\ \E i \in DOMAIN call.observations :
          /\ call.observations[i].station \notin StationCodes(call.stations)
          /\ call.observations[i].t_s > call.observations[i].t_p
    /\ \E i \in DOMAIN call.observations :
          /\ call.observations[i].station \in StationCodes(call.stations)
          /\ call.observations[i].t_s <= call.observations[i].t_p

-----------------------------------------------------------------------------
(* Properties of the detector's window lengths *)

(* num / 10 rounded to the nearest whole number, a half going to the even  *)
(* neighbour as Python's round does                                        *)
C22_Round(num) ==
    LET low == num \div 10
        rest == num % 10
    IN  IF rest > 5 \/ (rest = 5 /\ low % 2 = 1) THEN low + 1 ELSE low

(* C22: the detector's window lengths in samples are                       *)
(* n_sta = max(1, round(sta * fs)) and n_lta = max(n_sta + 1,              *)
(* round(lta * fs)) for every positive sta, lta and fs, so that            *)
(* n_lta > n_sta >= 1 and a product of 1.5 is rounded, not truncated.      *)
C22_WindowsAreRounded ==
    SuggestDone =>
        LET n_sta == NSta(call.sta, call.sampling_rate)
            n_lta == NLta(call.sta, call.lta, call.sampling_rate)
        IN  /\ n_sta = Max(1, C22_Round(call.sta * call.sampling_rate))
            /\ n_lta = Max(n_sta + 1, C22_Round(call.lta * call.sampling_rate))
            /\ n_lta > n_sta /\ n_sta >= 1

-----------------------------------------------------------------------------
(* Properties of the amplitude window *)

(* a Wood-Anderson call that got as far as the amplitude window *)
C23_Measured ==
    /\ C11_PipelineDone
    /\ Len(call.env.wa) > 0
(* the 1-based positions of the samples of wa_mm whose time (position - 1) *)
(* / fs lies in [t_p, t_p + min(2 (t_s - t_p), 15 s)]                      *)
C23_Window ==
    LET t_p == SelectedP[1].time_rel
        win_len == Min(2 * (SelectedS[1].time_rel - t_p), MAX_WINDOW)
    IN  {k \in DOMAIN call.env.wa :
            /\ t_p * call.trace_sampling_rate <= (k - 1) * 10
            /\ (k - 1) * 10 <= (t_p + win_len) * call.trace_sampling_rate}
C23_Peak == Max(0, CHOOSE a \in {Abs(call.env.wa[k]) : k \in C23_Window} \cup {0} :
                      \A k \in C23_Window : Abs(call.env.wa[k]) <= a)

(* C23: the amplitude a Wood-Anderson estimate reports is the largest      *)
(* absolute value among the samples of the window [t_p, t_p + min(2 (t_s - *)
(* t_p), 15 s)] that lie on the trace, no sample outside the window        *)
(* contributes to it, whatever the P time is, and with no sample in the    *)
(* window the result has ml = null.                                        *)
C23_PeakOverWindowOnly ==
    C23_Measured =>
        /\ result.value.amplitude_mm # None =>
              /\ result.value.amplitude_mm[1] = C23_Peak
              /\ result.value.amplitude_mm[1] > 0 =>
                    \E k \in C23_Window :
                        Abs(call.env.wa[k]) = result.value.amplitude_mm[1]
        /\ C23_Window = {} => result.value.ml = None

-----------------------------------------------------------------------------
(* Properties of the search grid *)

(* the samples of an axis (min, max, step): min + k step, not beyond max *)
C24_Axis(g) == {v \in g[1]..g[2] : (v - g[1]) % g[3] = 0}
C24_PositiveSteps == call.grid_x[3] > 0 /\ call.grid_y[3] > 0

-----------------------------------------------------------------------------
(* Properties of the pick pair the pages use *)

CollectDone == pc = "done" /\ call.op = "_collect_ps_observations"

(* C25: for every station the location page builds an observation for, the *)
(* P time and the S time of the observation are those of the P pick and    *)
(* the S pick the magnitude estimators select for that station from the    *)
(* same picks, also when the station has several P or several S picks.     *)
C25_SamePickPair ==
    CollectDone =>
        \A i \in DOMAIN result.value :
            LET o == result.value[i]
                p_pick == FirstPick(call.picks, o.station, "P")
                s_pick == FirstPick(call.picks, o.station, "S")
            IN  /\ p_pick # None /\ s_pick # None
                /\ o.t_p = p_pick[1].time_rel
                /\ o.t_s = s_pick[1].time_rel

-----------------------------------------------------------------------------
(* Properties of the calibration curve *)

C26_MlReturned ==
    /\ pc = "done" /\ call.op = "_compute_ml_hutton_boore"
    /\ result.kind = "return"
(* the magnitude of the same amplitude at distance d *)
C26_MlAt(d) == ComputeMlHuttonBoore(call.amplitude_mm, d).value
C26_Farther == {d \in MlDistances : d > call.distance_km}

(* C26 as stated: for a fixed amplitude the magnitude at a larger distance *)
(* is never above the magnitude at a smaller one, on either side of 60 km  *)
(* and across it                                                           *)
C26_MlNonIncreasing ==
    C26_MlReturned => \A d \in C26_Farther : C26_MlAt(d) <= result.value

(* the first distance beyond 60 km whose correction is not below that at  *)
(* 60 km: 0.0038 R + 3.02 >= 3.25 from R = 60.53 km on                     *)
C26_CaughtUp == HB_BREAK + 53

(* C26: for a fixed amplitude the magnitude at a larger distance is never  *)
(* above the magnitude at a smaller one when the two distances lie on the  *)
(* same side of 60 km or the larger one is at least 60.53 km; for every    *)
(* pair it is above by at most 0.002.                                      *)
C26_MlNonIncreasingApart ==
    C26_MlReturned =>
        \A d \in C26_Farther :
            /\ ((call.distance_km <= HB_BREAK) = (d <= HB_BREAK) \/ d >= C26_CaughtUp)
                  => C26_MlAt(d) <= result.value
            /\ C26_MlAt(d) <= result.value + 2000
(* a magnitude at 60 km or nearer, below it the magnitude at 60.53 km and  *)
(* above it the magnitude at 60.01 km                                      *)
C26_Witness ==
    /\ C26_MlReturned
    /\ call.distance_km <= HB_BREAK
    /\ C26_CaughtUp \in C26_Farther /\ C26_MlAt(C26_CaughtUp) < result.value
    /\ HB_BREAK + 1 \in C26_Farther /\ C26_MlAt(HB_BREAK + 1) > result.value

-----------------------------------------------------------------------------
(* Properties of the station count *)

(* the station codes that have a valid observation in the call *)
C27_ValidStations ==
    {call.observations[i].station : i \in
        {j \in DOMAIN call.observations :
            /\ call.observations[j].station \in StationCodes(call.stations)
            /\ call.observations[j].t_s > call.observations[j].t_p}}

(* C27: a location is returned only when at least min_stations different   *)
(* station codes have a valid observation, and its used_stations is the    *)
(* number of different stations among its residuals: a second observation  *)
(* of a station adds nothing to either count.                              *)
C27_CountsDistinctStations ==
    LocateFound =>
        /\ Cardinality(C27_ValidStations) >= call.min_stations
        /\ result.value[1].used_stations =
              Cardinality({result.value[1].residuals[i][1] :
                              i \in DOMAIN result.value[1].residuals})

-----------------------------------------------------------------------------
(* Invariants of the session *)

C28_CurrentLabels ==
    IF session.current_stream = None THEN <<>>
    ELSE ListTraceLabels(session.current_stream[1])

(* C28: whatever register_stream, set_current_stream and                   *)
(* set_selected_trace calls have been made, the current dataset name is a  *)
(* registered name and the current stream is the stream registered under   *)
(* it; a selected trace label is the label of a trace of the current       *)
(* stream, and there is none when the current stream has no traces;        *)
(* set_current_stream with a name that is not registered returns null and  *)
(* leaves the session as it was.                                           *)
C28_SessionIsConsistent ==
    /\ session.current_stream_name = None =>
          /\ session.current_stream = None
          /\ session.selected_trace_label = None
    /\ session.current_stream_name # None =>
          /\ \E i \in DOMAIN session.streams :
                session.streams[i].key = session.current_stream_name[1]
          /\ session.current_stream =
                DictGet(session.streams, session.current_stream_name[1])
    /\ session.selected_trace_label # None =>
          \E i \in DOMAIN C28_CurrentLabels :
              C28_CurrentLabels[i] = session.selected_trace_label[1]
    /\ C28_CurrentLabels = <<>> => session.selected_trace_label = None
    /\ ( /\ pc = "done" /\ call.op = "set_current_stream"
         /\ \A i \in DOMAIN before.streams : before.streams[i].key # call.name )
       => /\ result = Returned(None)
          /\ session = before
(* an unregistered name asked for in a session with two datasets and a     *)
(* selection that is not the first trace of the current stream             *)
C28_Witness ==
    /\ pc = "done" /\ call.op = "set_current_stream"
    /\ call.name = UnknownDataset
    /\ Len(session.streams) = 2
    /\ session.selected_trace_label # None
    /\ session.selected_trace_label[1] # C28_CurrentLabels[1]


(* C29: whatever register_stream and set_current_stream calls have been    *)
(* made, get_stream_summary() without a name gives the summary stored for  *)
(* the current dataset, null when that dataset has none, and never the     *)
(* summary of a dataset that is not current any more.                      *)
C29_SummaryIsOfCurrentDataset ==
    session.current_stream_name # None =>
        GetStreamSummary(session, None) =
            GetStreamSummary(session, session.current_stream_name)

-----------------------------------------------------------------------------
(* Properties of the viewer's trace cache *)

RenderDone == pc = "done" /\ call.op = "viewer_render"

(* C30: in every render of the viewer, traces that were taken from the     *)
(* trace cache and plotted are traces of the stream that is current in     *)
(* that render, whatever renders, uploads and dataset switches came        *)
(* before: an entry stored for another stream is never served.             *)
C30_CacheServesCurrentStream ==
    (RenderDone /\ result.value.from_cache) =>
        \A i \in DOMAIN result.value.plotted[1] :
            Some(result.value.plotted[1][i].stream) = session.current_stream

====
